---- MODULE Spec2Model ----
(***************************************************************************)
(* A model of the concurrency fabric of libbitcoin-network: the connector  *)
(* (resolve + socket connect raced against a deadline timer on the network *)
(* strand), the outbound and manual sessions that drive connectors, and    *)
(* the p2p supervisor (run/close sequences, subscribers, channel counting  *)
(* and loopback nonces).                                                   *)
(*                                                                         *)
(* The network strand is a FIFO queue of posted completion handlers.  A    *)
(* handler that the code calls synchronously is executed inside the action *)
(* of the handler that calls it; only boost::asio::post/async completions  *)
(* go through the queue.                                                   *)
(***************************************************************************)
EXTENDS Integers, Sequences, FiniteSets, Bags, TLC

\* Bound on the number of connector::connect calls explored in one behaviour.
MaxAttempts == 2

\* Bound on the number of channels presented to p2p::count_channel.
MaxChannels == 2

\* Bounds on the handlers subscribed to the supervisor and on its close calls.
MaxSubscribers == 2

MaxCloses == 2

\* Bound on the start calls made on one session.
MaxStarts == 3

\* Bounds on the pings a channel sends and the pongs it receives.
MaxPings == 2

MaxPongs == 2
MaxSubscribes == 3
MaxNotifies == 1
MaxDistStops == 2
MaxSends == 3

\* Connector identities (one asio resolver, one deadline each).  A manual
\* endpoint e owns connector e; outbound slot p owns batch_ consecutive ones.
Connectors == 1..4

\* Manual endpoints (settings.peers / p2p::connect arguments).
Endpoints == {1, 2}

\* Addresses the host pool may hold, and the configured blacklist.
Hosts == {"h1", "h2"}

blacklists == {"h2"}

\* The session configurations explored: outbound slots and batch sizes whose
\* connectors fit in Connectors.
DefaultSettings ==
    [ outbound_connections |-> 0,
      connect_batch_size   |-> 0,
      inbound_connections  |-> 0,
      inbound_port         |-> 0,
      enable_loopback      |-> FALSE,
      host_pool_capacity   |-> 0,
      self_port            |-> 0,
      peers                |-> <<>> ]

OutboundSettings ==
    { [DefaultSettings EXCEPT !.outbound_connections = x[1],
                              !.connect_batch_size = x[2]] :
        x \in {<<0, 2>>, <<1, 0>>, <<1, 2>>, <<2, 1>>} }

\* Two outbound slots with a batch of two connectors each.
SlotsSettings ==
    { [DefaultSettings EXCEPT !.outbound_connections = 2,
                              !.connect_batch_size = 2] }

\* An attempt is one connector::connect call; 0 stands for "none" (an unarmed
\* timer, a null channel).  The channel created by attempt a is named a.
Attempts == 1..(MaxAttempts + 1)

\* error::success and the error codes that appear in the modelled paths.
Success == "success"

\* The largest size_t; the largest integer TLC represents stands for it.
max_size_t == 2147483647

add1(x) == IF x = max_size_t THEN 0 ELSE x + 1

VARIABLES
    stopped_,   \* connector::stopped_, per connector
    timer_,     \* deadline armed by a connector: the attempt whose handler is bound, or 0
    pending,    \* asynchronous operations in flight: resolves and socket connects
    strand,     \* handlers posted to the network strand, in post order
    handler_,   \* the connect_handler bound by each connect call (its continuation)
    calls,      \* per connect call: the codes its handler has been invoked with
    attempts,   \* number of connect calls made so far
    halted,     \* connect calls that a caller's stop() found in progress
    settings,   \* network settings (read-only after construction)
    hostPool,   \* hosts: the addresses in the pool
    sstopped,   \* session::stopped_
    stimer,     \* session::timer_: the endpoint whose retry is armed, or 0
    sconnectors,\* connectors the session stops on stop (stop subscriber / store_connector)
    channels,   \* channels started by the session and not yet stopped: attempt -> phase
    count_,     \* session_outbound::count_
    cycles,     \* per outbound slot: number of batch() calls so far
    hb,         \* bag of handle_batch calls: [slot, cycle, ec]
    completes,  \* bag of batch completion handler calls: [slot, cycle, ec, ch]
    started,    \* codes passed to the session's start handler(s)
    ucalls,     \* per manual endpoint: the caller's handler invocations [ec, ch]
    retried,    \* per manual endpoint: the codes its retry-timer handler ran with
    mconnect,   \* per manual endpoint: when session_manual::connect was
                \* called for it (see NoConnect)
    closed_,    \* p2p::closed_
    cpc,        \* where the thread calling p2p::close is
    closes,     \* number of p2p::close calls that have returned
    pool,       \* p2p::threadpool_: running, stopping (keep-alive off), joined
    keys_,      \* p2p::keys_
    stop_subscriber_,    \* p2p::stop_subscriber_
    connect_subscriber_, \* p2p::connect_subscriber_
    attached,   \* sessions attached to the supervisor (subscribed to its stop)
    order,      \* the sessions the supervisor created and started, in order
    handlers,   \* per subscribing caller: its call's progress and its handler's invocations
    manual_,    \* p2p::manual_ is set
    broadcaster_, \* p2p::broadcaster_ is stopped
    hstopped,   \* hosts: stopped (saved)
    rpc,        \* where the thread calling p2p::run is
    runs,       \* codes passed to the run handler
    istopped,   \* session_inbound: session::stopped_
    acceptors,  \* acceptors created by the inbound session
    astopped,   \* acceptors on which stop() has been invoked
    icodes,     \* codes passed to the inbound session's start handler
    acceptCode, \* what acceptor::start returns (listen result)
    hostsCode,  \* what hosts::start returns (load of the hosts file)
    starts,     \* codes passed to the handler of p2p::start
    spc,        \* where the p2p::start call is: idle, posted
    ping,       \* a protocol_ping_60001 and its channel (see NoPing)
    seed,       \* a protocol_seed_31402 and its channel (see NoSeed)
    dist,       \* a channel's distributor (see NoDist)
    cpeer,      \* a channel_peer and its sends (see NoPeer)
    nonces_,    \* p2p::nonces_
    inbound_channel_count_, \* p2p::inbound_channel_count_
    total_channel_count_,   \* p2p::total_channel_count_
    reserved,   \* hosts: the reserved authorities
    chan,       \* per channel: inbound(), quiet(), authority(), peer_version()->nonce
    cphase,     \* per channel: where it is in its life
    cres        \* per channel: what its count_channel call saw and returned

connVars == <<stopped_, timer_, pending, strand, handler_, calls, attempts,
              halted>>

sessVars == <<sstopped, stimer, sconnectors, channels, count_, cycles, hb,
              completes, started, ucalls, retried, mconnect>>

countVars == <<nonces_, inbound_channel_count_, total_channel_count_,
               reserved, chan, cphase, cres>>

netVars == <<closed_, cpc, closes, pool, keys_, stop_subscriber_,
             connect_subscriber_, attached, order, handlers, manual_,
             broadcaster_, hstopped, rpc, runs, istopped, acceptors, astopped,
             icodes, starts, spc>>

protoVars == <<ping, seed, dist, cpeer>>

vars == <<connVars, settings, hostPool, sessVars, netVars, acceptCode,
          hostsCode, countVars, protoVars>>

\* A protocol_ping_60001 as constructed on a live channel: not started,
\* nonce_ = received (0), nothing sent; stopped / code are its channel's
\* stop latch; pongs are the pongs handed to handle_receive_pong, each with
\* the nonce_ it met; late is the number of pings sent when a heartbeat
\* first met a nonce not cleared (-1: none did).
NoPing ==
    [ started |-> FALSE, nonce |-> 0, stopped |-> FALSE, code |-> "none",
      sent |-> <<>>, pongs |-> <<>>, late |-> -1 ]

\* A protocol_seed_31402 as constructed on a live channel: not started, no
\* event handler stored (protocol_events::handler_), the synchronizer's
\* counter at 0, nothing in flight.  sends / storing / timer / stopnote are
\* what is outstanding (writes, the store of received addresses, the
\* germination timer, the channel's stop notification); subscribed is the
\* address subscription; stopped / code are the channel's stop latch;
\* events are the protocol events that have happened, error whether any
\* failure, expiry or outside stop has; done are the completion handler's
\* invocations, each with the events and the error flag it found.  loaded
\* are the codes of the set_event calls that have read a handler from
\* handler_ and not yet invoked it; fired are the codes the event handler
\* has been invoked with.
NoSeed ==
    [ started |-> FALSE, handler |-> FALSE, counter |-> 0,
      sends |-> {}, storing |-> FALSE, timer |-> FALSE, stopnote |-> FALSE,
      subscribed |-> FALSE, stopped |-> FALSE, code |-> "none",
      events |-> {}, error |-> FALSE, done |-> <<>>,
      loaded |-> <<>>, fired |-> <<>> ]

\* A channel_peer on a live socket: not stopped, nothing sent.  sends is
\* the number of send calls, writes the sends whose write is outstanding,
\* done the codes each send's completion handler was invoked with, and log
\* the stop calls (by the send that made them, 0 from elsewhere) and the
\* completion handler invocations, in order.
NoPeer ==
    [ stopped |-> FALSE, code |-> "none", sends |-> 0, writes |-> {},
      done |-> [n \in 1..MaxSends |-> <<>>], log |-> <<>> ]

\* The message identifiers whose typed subscribers are kept, and the handlers
\* that subscribe: handler h is the one given to the h-th subscribe call.
MessageIds == {"address", "ping", "pong"}
DistHandlers == 1..MaxSubscribes

\* A distributor as constructed: every typed subscriber empty and not
\* stopped.  calls are the subscribe calls with their results, seen what
\* each handler has been invoked with, left the handlers dropped for
\* returning false, stops the codes of the stop calls, notifies the notify
\* calls with their results.
NoDist ==
    [ stopped     |-> [m \in MessageIds |-> FALSE],
      subscribers |-> [m \in MessageIds |-> <<>>],
      calls       |-> <<>>,
      seen        |-> [h \in DistHandlers |-> <<>>],
      left        |-> {},
      stops       |-> <<>>,
      notifies    |-> <<>> ]

\* The callers that subscribe a handler to the supervisor, one call each.
Subscribers == 1..MaxSubscribers

\* A caller that has not subscribed: the subscriber it chose, where its call
\* is, the code its completion handler got, its key, whether unsubscribe was
\* called, whether its handler was dropped by a notification, and its
\* handler's invocations (how many with service_stopped, which other codes).
NoSubscription ==
    [ kind |-> "none", pc |-> "idle", done |-> "none", key |-> 0,
      unsub |-> FALSE, dropped |-> FALSE, stops |-> 0, seen |-> {} ]

(***************************************************************************)
(* The state as a record, so that a handler and everything it calls        *)
(* synchronously compose as functions on states.                           *)
(***************************************************************************)
St ==
    [ overflow |-> FALSE,
      stopped  |-> stopped_,
      timer    |-> timer_,
      pending  |-> pending,
      strand   |-> strand,
      handler  |-> handler_,
      calls    |-> calls,
      attempts |-> attempts,
      halted   |-> halted,
      pick     |-> [c \in Connectors |-> "none"],
      sstopped |-> sstopped,
      stimer   |-> stimer,
      sconnectors |-> sconnectors,
      channels |-> channels,
      count    |-> count_,
      cycles   |-> cycles,
      hb       |-> hb,
      completes |-> completes,
      started  |-> started,
      ucalls   |-> ucalls,
      retried  |-> retried,
      mconnect |-> mconnect,
      closed   |-> closed_,
      cpc      |-> cpc,
      closes   |-> closes,
      pool     |-> pool,
      keys     |-> keys_,
      ssub     |-> stop_subscriber_,
      csub     |-> connect_subscriber_,
      attached |-> attached,
      order    |-> order,
      handlers |-> handlers,
      manual   |-> manual_,
      broadcaster |-> broadcaster_,
      hstopped |-> hstopped,
      rpc      |-> rpc,
      runs     |-> runs,
      istopped |-> istopped,
      acceptors |-> acceptors,
      astopped |-> astopped,
      icodes   |-> icodes,
      starts   |-> starts,
      spc      |-> spc ]

Apply(s) ==
    /\ ~s.overflow
    /\ stopped_' = s.stopped
    /\ timer_'   = s.timer
    /\ pending'  = s.pending
    /\ strand'   = s.strand
    /\ handler_' = s.handler
    /\ calls'    = s.calls
    /\ attempts' = s.attempts
    /\ halted'   = s.halted
    /\ sstopped' = s.sstopped
    /\ stimer'   = s.stimer
    /\ sconnectors' = s.sconnectors
    /\ channels' = s.channels
    /\ count_'   = s.count
    /\ cycles'   = s.cycles
    /\ hb'       = s.hb
    /\ completes' = s.completes
    /\ started'  = s.started
    /\ ucalls'   = s.ucalls
    /\ retried'  = s.retried
    /\ mconnect' = s.mconnect
    /\ closed_'  = s.closed
    /\ cpc'      = s.cpc
    /\ closes'   = s.closes
    /\ pool'     = s.pool
    /\ keys_'    = s.keys
    /\ stop_subscriber_' = s.ssub
    /\ connect_subscriber_' = s.csub
    /\ attached' = s.attached
    /\ order'    = s.order
    /\ handlers' = s.handlers
    /\ manual_'  = s.manual
    /\ broadcaster_' = s.broadcaster
    /\ hstopped' = s.hstopped
    /\ rpc'      = s.rpc
    /\ runs'     = s.runs
    /\ istopped' = s.istopped
    /\ acceptors' = s.acceptors
    /\ astopped' = s.astopped
    /\ icodes'   = s.icodes
    /\ starts'   = s.starts
    /\ spc'      = s.spc
    /\ UNCHANGED <<settings, hostPool, acceptCode, hostsCode, countVars,
                   protoVars>>

\* The connectors a configuration creates (a manual endpoint e owns
\* connector e).
ConnectorsInUse ==
    IF settings.outbound_connections > 1 /\ settings.connect_batch_size > 1
    THEN Connectors
    ELSE {1, 2}

\* With two slots of two connectors one connect call more is explored, so
\* that both connectors of a slot connect while the other slot has started.
AttemptLimit ==
    IF settings.outbound_connections > 1 /\ settings.connect_batch_size > 1
    THEN MaxAttempts + 1
    ELSE MaxAttempts

Task(t, c, ec, a) == [t |-> t, c |-> c, ec |-> ec, a |-> a]

Op(op, c, a) == [op |-> op, c |-> c, a |-> a]

\* boost::asio::post(strand_, ...), and the completion of an async operation
\* whose handler is bound to the strand.
Post(s, task) == [s EXCEPT !.strand = Append(@, task)]

(***************************************************************************)
(* deadline (async/deadline): a cancellable one-shot timer on the strand.  *)
(* start re-arms (the prior handler is cancelled and posted with           *)
(* operation_canceled), stop cancels the pending arm, expiry posts the     *)
(* handler with success.                                                   *)
(***************************************************************************)
deadline_stop(s, c) ==
    IF s.timer[c] = 0 THEN s
    ELSE Post([s EXCEPT !.timer[c] = 0],
              Task("handle_timer", c, "operation_canceled", s.timer[c]))

deadline_start(s, c, a) ==
    [deadline_stop(s, c) EXCEPT !.timer[c] = a]

\* asio resolver cancel: every resolve still in flight on this resolver
\* completes with operation_aborted; a completion already posted is unaffected.
RECURSIVE CancelAll(_, _, _)
CancelAll(s, c, as) ==
    IF as = {} THEN s
    ELSE LET a == CHOOSE x \in as : \A y \in as : x <= y
         IN CancelAll(Post([s EXCEPT !.pending = @ \ {Op("resolve", c, a)}],
                           Task("handle_resolve", c, "operation_aborted", a)),
                      c, as \ {a})

resolver_cancel(s, c) ==
    CancelAll(s, c, {a \in Attempts : Op("resolve", c, a) \in s.pending})

(***************************************************************************)
(* connector                                                               *)
(***************************************************************************)
connector_stop(s, c) ==
    IF s.stopped[c] THEN s
    ELSE deadline_stop(resolver_cancel(s, c), c)

\* connector::connect: h is the bound connect_handler.
connector_connect(s, c, h) ==
    IF s.attempts >= AttemptLimit THEN [s EXCEPT !.overflow = TRUE]
    ELSE LET a  == s.attempts + 1
             s1 == [s EXCEPT !.attempts = a,
                             !.handler[a] = h,
                             !.stopped[c] = FALSE]
             s2 == deadline_start(s1, c, a)
         IN [s2 EXCEPT !.pending = @ \cup {Op("resolve", c, a)}]

(***************************************************************************)
(* session (base class): stopped flag, retry timer, channel start.         *)
(***************************************************************************)
\* session::start_channel: a stopped session stops the channel at once (both
\* channel handlers then find the session stopped); otherwise the channel is
\* registered and begins its handshake.
session_start_channel(s, ch) ==
    IF s.sstopped THEN s
    ELSE [s EXCEPT !.channels[ch] = "handshake"]

\* session timer_->start(handler): re-arming cancels the armed retry, whose
\* handler is posted with operation_canceled.
session_timer_start(s, e) ==
    LET s1 == IF s.stimer = 0 THEN s
              ELSE Post(s, Task("session_timer", s.stimer, "operation_canceled", 0))
    IN [s1 EXCEPT !.stimer = e]

session_timer_stop(s) ==
    IF s.stimer = 0 THEN s
    ELSE Post([s EXCEPT !.stimer = 0],
              Task("session_timer", s.stimer, "operation_canceled", 0))

RECURSIVE StopConnectors(_, _)
StopConnectors(s, cs) ==
    IF cs = {} THEN s
    ELSE LET c == CHOOSE x \in cs : \A y \in cs : x <= y
         IN StopConnectors(connector_stop(s, c), cs \ {c})

\* session::start: starting a started session fails.
session_start(s) ==
    IF ~s.sstopped THEN [s EXCEPT !.started = Append(@, "operation_failed")]
    ELSE [s EXCEPT !.sstopped = FALSE]

\* session::stop: latch stopped, cancel the retry timer, notify the stop
\* subscriber (every stored connector is stopped).
session_stop(s) ==
    StopConnectors(session_timer_stop([s EXCEPT !.sstopped = TRUE]),
                   s.sconnectors)

(***************************************************************************)
(* session_outbound                                                        *)
(***************************************************************************)
\* batch_(std::max(connect_batch_size, 1u))
batch_ ==
    IF settings.connect_batch_size > 1 THEN settings.connect_batch_size ELSE 1

Slots == 1..settings.outbound_connections

\* create_connectors(batch_) for slot p: its i-th connector.
SlotConnector(p, i) == (p - 1) * batch_ + i

SlotConnectors(p) == {SlotConnector(p, i) : i \in 1..batch_}

BatchHandler(p, cy) == [k |-> "batch", slot |-> p, cycle |-> cy]

RECURSIVE out_handle_batch(_, _, _, _, _)

out_start_batch(s, ec, host, c, p, cy) ==
    IF s.sstopped \/ ec = "service_stopped"
    THEN out_handle_batch(s, "service_stopped", 0, p, cy)
    ELSE IF ec # Success THEN out_handle_batch(s, ec, 0, p, cy)
    ELSE IF host \in blacklists
    THEN out_handle_batch(s, "address_blocked", 0, p, cy)
    ELSE connector_connect(s, c, BatchHandler(p, cy))

\* The loop of session_outbound::batch: fetch an address for each connector
\* (s.pick holds what hosts.fetch yields for it) and start it.
RECURSIVE out_batch_loop(_, _, _, _)
out_batch_loop(s, p, cy, i) ==
    IF i > batch_ \/ s.overflow THEN s
    ELSE LET c    == SlotConnector(p, i)
             host == s.pick[c]
             ec   == IF host = "none" THEN "address_not_found" ELSE Success
         IN out_batch_loop(out_start_batch(s, ec, host, c, p, cy), p, cy, i + 1)

out_batch(s, p) ==
    LET cy == s.cycles[p] + 1
    IN out_batch_loop([s EXCEPT !.cycles[p] = cy], p, cy, 1)

out_start_connect(s, p) ==
    IF s.sstopped THEN s ELSE out_batch(s, p)

out_handle_connect(s, ec, ch, p) ==
    IF ec # Success THEN out_start_connect(s, p)
    ELSE session_start_channel(s, ch)

\* The batch completion handler (complete) is handle_connect.
out_complete(s, ec, ch, p, cy) ==
    out_handle_connect(
        [s EXCEPT !.completes =
            @ (+) SetToBag({[slot |-> p, cycle |-> cy, ec |-> ec, ch |-> ch]})],
        ec, ch, p)

out_handle_batch(s, ec, ch, p, cy) ==
    LET n      == s.count + 1
        finish == (n = batch_)
        s1     == [s EXCEPT !.count = n,
                            !.hb = @ (+) SetToBag({[slot |-> p, cycle |-> cy,
                                                     ec |-> ec]})]
    IN IF ec = Success
       THEN LET s2 == IF ~finish
                      THEN StopConnectors([s1 EXCEPT !.count = batch_],
                                          SlotConnectors(p))
                      ELSE s1
            IN out_complete(s2, Success, ch, p, cy)
       ELSE IF finish THEN out_complete(s1, "connect_failed", 0, p, cy)
       ELSE s1

\* A plausible slip: the stop of a channel leaves its slot idle.
handle_channel_stop_idle(s, p) == s

\* session_outbound::handle_channel_stop
out_handle_channel_stop(s, p) == out_start_connect(s, p)

RECURSIVE out_started_loop(_, _)
out_started_loop(s, p) ==
    IF p > settings.outbound_connections \/ s.overflow THEN s
    ELSE out_started_loop(
            out_start_connect(
                [s EXCEPT !.sconnectors = @ \cup SlotConnectors(p)], p),
            p + 1)

out_handle_started(s) ==
    LET s1 == out_started_loop(s, 1)
    IN [s1 EXCEPT !.started = Append(@, Success)]

\* A plausible slip: the outbound session started with nothing to connect.
out_start_no_bypass(s) ==
    IF ~s.sstopped THEN session_start(s)
    ELSE out_handle_started(session_start(s))

\* session_outbound::start
out_start(s) ==
    IF settings.outbound_connections = 0
    THEN [s EXCEPT !.started = Append(@, Success)]
    ELSE IF ~s.sstopped THEN session_start(s)
    ELSE out_handle_started(session_start(s))

(***************************************************************************)
(* session_manual                                                          *)
(***************************************************************************)
ManualHandler(e) == [k |-> "manual", slot |-> e, cycle |-> 0]

\* What the caller's handler for endpoint e returns (p2p::channel_notifier
\* returns bool): endpoint 1's caller wants the first connection only,
\* endpoint 2's caller wants every one.
HandlerReturns(e) == e # 1

\* The caller's channel_handler for endpoint e is invoked; the session holds
\* it as a channel_handler, whose result is void.
UserCall(s, e, ec, ch) ==
    [s EXCEPT !.ucalls[e] =
        Append(@, [ec |-> ec, ch |-> ch, ret |-> HandlerReturns(e)])]

man_start_connect(s, e) ==
    IF s.sstopped THEN UserCall(s, e, "service_stopped", 0)
    ELSE connector_connect(s, e, ManualHandler(e))

\* No session_manual::connect call made for an endpoint.  A call records how
\* it found the session (stopped / started), its place among the calls, and
\* how many inbound starts and run completions had happened before it.
NoConnect == [at |-> "none", n |-> 0, icodes |-> 0, runs |-> 0]

NoteConnect(s, e) ==
    [s EXCEPT !.mconnect[e] =
        [ at     |-> IF s.sstopped THEN "stopped" ELSE "started",
          n      |-> Cardinality({x \in Endpoints : s.mconnect[x].at # "none"}) + 1,
          icodes |-> Len(s.icodes),
          runs   |-> Len(s.runs) ]]

\* A plausible slip: connect without the stopped test, the connector used
\* at once.
man_connect_unguarded(s, e) ==
    connector_connect([s EXCEPT !.sconnectors = @ \cup {e}], e,
                      ManualHandler(e))

\* A plausible slip: the connector not subscribed to the session's stop.
man_connect_unstored(s, e) ==
    IF s.sstopped THEN UserCall(s, e, "service_stopped", 0)
    ELSE man_start_connect(s, e)

\* session_manual::connect(host, handler): endpoint e gets connector e.
man_connect(s, e) ==
    IF s.sstopped THEN UserCall(s, e, "service_stopped", 0)
    ELSE man_start_connect([s EXCEPT !.sconnectors = @ \cup {e}], e)

\* A plausible slip: the stopped test after a successful connect left out.
man_handle_connect_unchecked(s, ec, ch, e) ==
    IF ec = "service_stopped" THEN UserCall(s, e, ec, 0)
    ELSE IF ec # Success THEN session_timer_start(s, e)
    ELSE session_start_channel(s, ch)

\* session_manual::handle_connect; channel->stop(service_stopped) leaves the
\* channel stopped with that code, never started.
man_handle_connect(s, ec, ch, e) ==
    IF ec = "service_stopped" THEN UserCall(s, e, ec, 0)
    ELSE IF ec # Success THEN session_timer_start(s, e)
    ELSE IF s.sstopped
         THEN [UserCall(s, e, "service_stopped", 0) EXCEPT
                  !.channels[ch] = "service_stopped"]
    ELSE session_start_channel(s, ch)

\* The handler bound to the session timer, BIND3(start_connect, host,
\* connector, handler): it runs on expiry and on cancellation alike.
man_retry(s, e, ec) ==
    man_start_connect([s EXCEPT !.retried[e] = Append(@, ec)], e)

\* A plausible slip: start without the test for a session already started.
man_start_always(s) ==
    [s EXCEPT !.sstopped = FALSE, !.started = Append(@, Success)]

\* session_manual::start
man_start(s) ==
    IF ~s.sstopped THEN session_start(s)
    ELSE [session_start(s) EXCEPT !.started = Append(@, Success)]

man_handle_channel_start(s, ec, ch, e) == UserCall(s, e, ec, ch)

man_handle_channel_stop(s, e) == man_start_connect(s, e)

\* A connect_handler invocation: handler(ec, channel).  The channel is
\* non-null exactly when the connector passes success.
Invoke(s, a, ec) ==
    LET h  == s.handler[a]
        ch == IF ec = Success THEN a ELSE 0
        s1 == [s EXCEPT !.calls[a] = Append(@, ec)]
    IN CASE h.k = "batch"  -> out_handle_batch(s1, ec, ch, h.slot, h.cycle)
         [] h.k = "manual" -> man_handle_connect(s1, ec, ch, h.slot)
         [] OTHER          -> s1

connector_handle_resolve(s, c, ec, a) ==
    IF ec = "operation_aborted" THEN Invoke(s, a, "channel_stopped")
    ELSE IF ec # Success THEN Invoke(s, a, ec)
    ELSE [s EXCEPT !.pending = @ \cup {Op("socket", c, a)}]

connector_do_handle_connect(s, c, ec, a) ==
    IF s.stopped[c] THEN s
    ELSE Invoke(deadline_stop([s EXCEPT !.stopped[c] = TRUE], c), a, ec)

connector_handle_timer(s, c, ec, a) ==
    IF s.stopped[c] THEN s
    ELSE LET s1 == [resolver_cancel(s, c) EXCEPT !.stopped[c] = TRUE]
         IN IF ec # Success THEN Invoke(s1, a, ec)
            ELSE Invoke(s1, a, "channel_timeout")

(***************************************************************************)
(* subscriber (async/subscriber): handlers by key.  stop fans the code out *)
(* to every retained handler and drops them all; a subscribe after stop    *)
(* retains nothing and hands the handler subscriber_stopped; notify_one    *)
(* invokes and erases the handler of a key; notify invokes every handler   *)
(* and retains those that return true.                                     *)
(***************************************************************************)
\* One invocation of a subscribed handler.
Notify(s, h, ec) ==
    IF ec = "service_stopped"
    THEN [s EXCEPT !.handlers[h].stops = @ + 1]
    ELSE [s EXCEPT !.handlers[h].seen = @ \cup {ec}]

RECURSIVE NotifyAll(_, _, _)
NotifyAll(s, hs, ec) ==
    IF hs = {} THEN s
    ELSE LET h == CHOOSE x \in hs : \A y \in hs : x <= y
         IN NotifyAll(Notify(s, h, ec), hs \ {h}, ec)

SubOf(s, w) == IF w = "close" THEN s.ssub ELSE s.csub

PutSub(s, w, sub) ==
    IF w = "close" THEN [s EXCEPT !.ssub = sub] ELSE [s EXCEPT !.csub = sub]

Retained(sub) == {e.h : e \in sub.subs}

subscriber_subscribe(s, w, h, key) ==
    IF SubOf(s, w).stopped
    THEN [s |-> Notify(s, h, "subscriber_stopped"),
          code |-> "subscriber_stopped"]
    ELSE [s |-> PutSub(s, w, [SubOf(s, w) EXCEPT
                    !.subs = @ \cup {[key |-> key, h |-> h]}]),
          code |-> Success]

subscriber_stop(s, w, ec) ==
    IF SubOf(s, w).stopped THEN s
    ELSE PutSub(NotifyAll(s, Retained(SubOf(s, w)), ec), w,
                [stopped |-> TRUE, subs |-> {}])

subscriber_notify_one(s, w, key, ec) ==
    LET sub == SubOf(s, w)
        es  == {e \in sub.subs : e.key = key}
    IN PutSub(NotifyAll(s, {e.h : e \in es}, ec), w,
              [sub EXCEPT !.subs = @ \ es])

RECURSIVE MarkDropped(_, _)
MarkDropped(s, hs) ==
    IF hs = {} THEN s
    ELSE LET h == CHOOSE x \in hs : \A y \in hs : x <= y
         IN MarkDropped([s EXCEPT !.handlers[h].dropped = TRUE], hs \ {h})

subscriber_notify(s, w, ec, keep) ==
    LET sub == SubOf(s, w)
        s1  == NotifyAll(s, Retained(sub), ec)
    IN IF sub.stopped THEN s
       ELSE PutSub(MarkDropped(s1, Retained(sub) \ keep), w,
                   [sub EXCEPT !.subs = {e \in @ : e.h \in keep}])

(***************************************************************************)
(* session_inbound: start, and stop through the supervisor's stop          *)
(* subscriber.                                                             *)
(***************************************************************************)
inb_start(s) ==
    IF settings.inbound_connections = 0
    THEN [s EXCEPT !.icodes = Append(@, Success)]
    ELSE IF settings.inbound_port = 0
    THEN [s EXCEPT !.icodes = Append(@, "bypassed")]
    ELSE IF ~s.istopped
    THEN [s EXCEPT !.icodes = Append(@, "operation_failed")]
    ELSE [s EXCEPT !.istopped = FALSE,
                   !.acceptors = @ + 1,
                   !.icodes = Append(@, acceptCode)]

\* session_inbound stop: the stop subscriber stops every acceptor the
\* session created, whether its start succeeded or not.
inb_stop(s) == [s EXCEPT !.istopped = TRUE, !.astopped = s.acceptors]

\* p2p::attach<Session>: the session's stop is subscribed to the supervisor's
\* stop subscriber.
p2p_attach(s, name) ==
    LET s1 == [s EXCEPT !.order = Append(@, name)]
    IN IF s.ssub.stopped THEN s1 ELSE [s1 EXCEPT !.attached = @ \cup {name}]

\* The attached sessions' stop handlers run: session::stop.
StopSessions(s) ==
    LET s1 == IF "inbound" \in s.attached THEN inb_stop(s) ELSE s
        s2 == IF s.attached \cap {"outbound", "manual"} # {}
              THEN session_stop(s1) ELSE s1
    IN [s2 EXCEPT !.attached = {}]

(***************************************************************************)
(* p2p                                                                     *)
(***************************************************************************)
\* p2p::create_key: ++keys_, an overflow is logged and ignored.
p2p_create_key(s) ==
    [s EXCEPT !.keys = add1(@)]

\* p2p::do_subscribe_close / p2p::do_subscribe_connect
p2p_do_subscribe(s, h) ==
    LET s1 == p2p_create_key(s)
        r  == subscriber_subscribe(s1, s.handlers[h].kind, h, s1.keys)
    IN [r.s EXCEPT !.handlers[h].done = r.code, !.handlers[h].key = s1.keys]

\* p2p::do_unsubscribe_close / p2p::do_unsubscribe_connect
p2p_do_unsubscribe(s, h) ==
    subscriber_notify_one(s, s.handlers[h].kind, s.handlers[h].key,
                          "desubscribed")

\* A plausible slip: the connect subscriber left running.
do_close_connect_kept(s) ==
    LET s1 == [s EXCEPT !.manual = FALSE]
        s2 == subscriber_stop(StopSessions(s1), "close", "service_stopped")
    IN [s2 EXCEPT !.broadcaster = TRUE,
                  !.pool = IF @ = "running" THEN "stopping" ELSE @]

\* p2p::do_close
p2p_do_close(s) ==
    LET s1 == [s EXCEPT !.manual = FALSE]
        s2 == subscriber_stop(StopSessions(s1), "close", "service_stopped")
        s3 == subscriber_stop(s2, "connect", "service_stopped")
    IN [s3 EXCEPT !.broadcaster = TRUE,
                  !.pool = IF @ = "running" THEN "stopping" ELSE @]

\* A plausible slip: every inbound error code ends the run sequence.
handle_run_no_bypass(s, ec) ==
    IF ec # Success
    THEN [s EXCEPT !.runs = Append(@, ec)]
    ELSE LET s1 == out_start(p2p_attach(s, "outbound"))
             oc == s1.started[Len(s1.started)]
         IN [s1 EXCEPT !.runs =
                Append(@, IF oc = "bypassed" THEN Success ELSE oc)]

\* p2p::handle_run
p2p_handle_run(s, ec) ==
    IF ec # Success /\ ec # "bypassed"
    THEN [s EXCEPT !.runs = Append(@, ec)]
    ELSE LET s1 == out_start(p2p_attach(s, "outbound"))
             oc == s1.started[Len(s1.started)]
         IN [s1 EXCEPT !.runs =
                Append(@, IF oc = "bypassed" THEN Success ELSE oc)]

\* p2p::do_connect(endpoint)
p2p_do_connect(s, e) ==
    IF s.manual THEN man_connect(NoteConnect(s, e), e) ELSE s

\* p2p::do_connect_handled(endpoint, handler)
p2p_do_connect_handled(s, e) ==
    IF s.manual THEN man_connect(NoteConnect(s, e), e)
    ELSE UserCall(s, e, "service_stopped", 0)

\* A plausible slip: connect without the closed test.
connect_unchecked(s, e) ==
    Post([s EXCEPT !.mconnect[e].at = "posted"],
         Task("do_connect_handled", e, Success, 0))

\* p2p::connect(endpoint, handler) from outside the pool: mconnect notes
\* that the call found the supervisor closed, or that do_connect_handled is
\* posted.
p2p_connect(s, e) ==
    IF s.closed
    THEN UserCall([s EXCEPT !.mconnect[e].at = "closed"], e,
                  "service_stopped", 0)
    ELSE Post([s EXCEPT !.mconnect[e].at = "posted"],
              Task("do_connect_handled", e, Success, 0))

\* for (const auto& peer: settings_.peers) do_connect(peer);
RECURSIVE ConnectPeers(_, _)
ConnectPeers(s, ps) ==
    IF ps = <<>> THEN s
    ELSE ConnectPeers(p2p_do_connect(s, Head(ps)), Tail(ps))

\* A plausible slip: the configured peers not connected by run.
do_run_no_peers(s) ==
    IF s.closed THEN [s EXCEPT !.runs = Append(@, "service_stopped")]
    ELSE LET s1 == inb_start(p2p_attach(s, "inbound"))
         IN p2p_handle_run(s1, s1.icodes[Len(s1.icodes)])

\* p2p::do_run
p2p_do_run(s) ==
    IF s.closed THEN [s EXCEPT !.runs = Append(@, "service_stopped")]
    ELSE LET s1 == ConnectPeers(s, settings.peers)
             s2 == inb_start(p2p_attach(s1, "inbound"))
         IN p2p_handle_run(s2, s2.icodes[Len(s2.icodes)])

\* session_seed::start: with host_pool_capacity 0 the session is bypassed;
\* otherwise seeding begins and the handler is invoked when it ends (the
\* seeding itself is not followed here).
seed_start(s) ==
    IF settings.host_pool_capacity = 0
    THEN [s EXCEPT !.starts = Append(@, Success)]
    ELSE s

\* A plausible slip: the result of start_hosts ignored.
handle_start_hosts_ignored(s, ec) ==
    IF ec # Success THEN [s EXCEPT !.starts = Append(@, ec)]
    ELSE seed_start(p2p_attach(s, "seed"))

\* p2p::handle_start; the seed handler maps bypassed to success.
p2p_handle_start(s, ec) ==
    IF ec # Success THEN [s EXCEPT !.starts = Append(@, ec)]
    ELSE IF hostsCode # Success THEN [s EXCEPT !.starts = Append(@, hostsCode)]
    ELSE seed_start(p2p_attach(s, "seed"))

\* p2p::do_start
p2p_do_start(s) ==
    LET s1 == man_start(p2p_attach([s EXCEPT !.manual = TRUE], "manual"))
    IN p2p_handle_start(s1, s1.started[Len(s1.started)])

\* One posted handler runs on the strand.
RunTask(s, k) ==
    CASE k.t = "handle_resolve"    -> connector_handle_resolve(s, k.c, k.ec, k.a)
      [] k.t = "do_handle_connect" -> connector_do_handle_connect(s, k.c, k.ec, k.a)
      [] k.t = "handle_timer"      -> connector_handle_timer(s, k.c, k.ec, k.a)
      [] k.t = "session_timer"     -> man_retry(s, k.c, k.ec)
      [] k.t = "do_subscribe"      -> p2p_do_subscribe(s, k.c)
      [] k.t = "do_unsubscribe"    -> p2p_do_unsubscribe(s, k.c)
      [] k.t = "do_close"          -> p2p_do_close(s)
      [] k.t = "do_run"            -> p2p_do_run(s)
      [] k.t = "do_start"          -> p2p_do_start(s)
      [] k.t = "do_connect_handled" -> p2p_do_connect_handled(s, k.c)

(***************************************************************************)
(* Actions shared by every specification that drives connectors.           *)
(***************************************************************************)
\* What hosts.fetch may yield for each connector of a batch: an address of
\* the pool, or nothing (address_not_found) when the pool is empty.
Picks ==
    {pk \in [Connectors -> IF hostPool = {} THEN {"none"} ELSE hostPool] :
        \A c \in Connectors \ ConnectorsInUse : pk[c] = pk[1]}

WithPick(pk) == [St EXCEPT !.pick = pk]

\* The strand runs the handler at the head of its queue.
StrandRun ==
    /\ strand # <<>>
    /\ pool # "joined"
    /\ \E pk \in Picks :
        Apply(RunTask([WithPick(pk) EXCEPT !.strand = Tail(@)], Head(strand)))

\* The connect timer of a connector expires.
TimerExpire ==
    \E c \in Connectors :
        /\ timer_[c] # 0
        /\ Apply(Post([St EXCEPT !.timer[c] = 0],
                      Task("handle_timer", c, Success, timer_[c])))

\* A name resolution completes, with endpoints or with a resolver error.
ResolveComplete ==
    \E p \in pending, ec \in {Success, "resolve_failed"} :
        /\ p.op = "resolve"
        /\ Apply(Post([St EXCEPT !.pending = @ \ {p}],
                      Task("handle_resolve", p.c, ec, p.a)))

\* A socket connect completes: connector::handle_connect runs on the socket
\* strand and posts do_handle_connect to the connector's strand.
SocketComplete ==
    \E p \in pending, ec \in {Success, "connect_failed"} :
        /\ p.op = "socket"
        /\ Apply(Post([St EXCEPT !.pending = @ \ {p}],
                      Task("do_handle_connect", p.c, ec, p.a)))

\* The handshake of a started channel completes, with success or an error;
\* the session's handle_channel_start runs.
ChannelStart ==
    \E ch \in Attempts, ec \in {Success, "peer_unsupported"} :
        /\ channels[ch] = "handshake"
        /\ LET s1 == [St EXCEPT !.channels[ch] = "started"]
               h  == handler_[ch]
           IN Apply(IF h.k = "manual"
                    THEN man_handle_channel_start(s1, ec, ch, h.slot)
                    ELSE s1)

\* A started channel stops (handshake failure, peer drop, session stop); the
\* session's handle_channel_stop runs.
ChannelStop ==
    \E ch \in Attempts, pk \in Picks :
        /\ channels[ch] = "started"
        /\ LET s1 == [WithPick(pk) EXCEPT !.channels[ch] = "none"]
               h  == handler_[ch]
           IN Apply(IF h.k = "manual"
                    THEN man_handle_channel_stop(s1, h.slot)
                    ELSE out_handle_channel_stop(s1, h.slot))

\* The session's retry timer expires.
SessionTimerExpire ==
    /\ stimer # 0
    /\ Apply(Post([St EXCEPT !.stimer = 0],
                  Task("session_timer", stimer, Success, 0)))

\* session::stop, posted to the strand by the owner (p2p close or a test).
SessionStop ==
    /\ started # <<>>
    /\ Apply(session_stop(St))

(***************************************************************************)
(* Calls into the supervisor from threads outside its pool.  A call that   *)
(* tests closed() and then posts is two steps: close may come between.     *)
(***************************************************************************)
\* p2p::close: closed_.store(true)
CloseLatch ==
    /\ cpc = "idle"
    /\ closes < MaxCloses
    /\ Apply([St EXCEPT !.closed = TRUE, !.cpc = "latched"])

\* p2p::close: dispatch(strand_, do_close), a post from outside the pool.
CloseDispatch ==
    /\ cpc = "latched"
    /\ Apply(Post([St EXCEPT !.cpc = "dispatched"],
                  Task("do_close", 0, Success, 0)))

\* p2p::close: threadpool_.join() returns once the keep-alive is off and the
\* pool has run out of work.
CloseJoin ==
    /\ cpc = "dispatched"
    /\ \/ pool = "joined"
       \/ /\ pool = "stopping"
          /\ strand = <<>>
          /\ pending = {}
          /\ stimer = 0
          /\ \A c \in Connectors : timer_[c] = 0
    /\ Apply([St EXCEPT !.pool = "joined", !.cpc = "joined"])

\* p2p::close: stop_hosts(), and the call returns.
CloseHosts ==
    /\ cpc = "joined"
    /\ Apply([St EXCEPT !.hstopped = TRUE, !.cpc = "idle",
                        !.closes = @ + 1])

\* p2p::subscribe_close / p2p::subscribe_connect: the closed() test.
SubscribeCheck ==
    \E h \in Subscribers, w \in {"close", "connect"} :
        /\ handlers[h].pc = "idle"
        /\ LET s1 == [St EXCEPT !.handlers[h].kind = w]
           IN Apply(IF closed_
                    THEN [Notify(s1, h, "service_stopped") EXCEPT
                             !.handlers[h].pc = "done",
                             !.handlers[h].done = "service_stopped"]
                    ELSE [s1 EXCEPT !.handlers[h].pc = "checked"])

\* p2p::subscribe_close / p2p::subscribe_connect: the post.
SubscribePost ==
    \E h \in Subscribers :
        /\ handlers[h].pc = "checked"
        /\ Apply(Post([St EXCEPT !.handlers[h].pc = "done"],
                      Task("do_subscribe", h, Success, 0)))

\* p2p::unsubscribe_close / p2p::unsubscribe_connect with the key the
\* completion handler received.
Unsubscribe ==
    \E h \in Subscribers :
        /\ handlers[h].done = Success
        /\ ~handlers[h].unsub
        /\ Apply(Post([St EXCEPT !.handlers[h].unsub = TRUE],
                      Task("do_unsubscribe", h, Success, 0)))

\* p2p::notify_connect, called by a session on the strand when a channel has
\* connected; each handler's return value decides whether it is retained.
NotifyConnect ==
    /\ pool # "joined"
    /\ Retained(connect_subscriber_) # {}
    /\ \E keep \in SUBSET Retained(connect_subscriber_) :
          Apply(subscriber_notify(St, "connect", Success, keep))

\* p2p::start: dispatch(strand_, do_start) from the caller's thread.
StartDispatch ==
    /\ spc = "idle"
    /\ Apply(Post([St EXCEPT !.spc = "posted"],
                  Task("do_start", 0, Success, 0)))

\* p2p::run: the closed() test.
RunCheck ==
    /\ rpc = "idle"
    /\ Apply(IF closed_
             THEN [St EXCEPT !.rpc = "done",
                             !.runs = Append(@, "service_stopped")]
             ELSE [St EXCEPT !.rpc = "checked"])

\* p2p::run: the post of do_run.
RunPost ==
    /\ rpc = "checked"
    /\ Apply(Post([St EXCEPT !.rpc = "done"], Task("do_run", 0, Success, 0)))

InitSession ==
    /\ sstopped = TRUE
    /\ stimer = 0
    /\ sconnectors = {}
    /\ channels = [a \in Attempts |-> "none"]
    /\ count_ = 0
    /\ cycles = [p \in Connectors |-> 0]
    /\ hb = EmptyBag
    /\ completes = EmptyBag
    /\ started = <<>>
    /\ ucalls = [e \in Endpoints |-> <<>>]
    /\ retried = [e \in Endpoints |-> <<>>]
    /\ mconnect = [e \in Endpoints |-> NoConnect]

InitConn ==
    /\ stopped_ = [c \in Connectors |-> TRUE]
    /\ timer_   = [c \in Connectors |-> 0]
    /\ pending  = {}
    /\ strand   = <<>>
    /\ handler_ = [a \in Attempts |-> [k |-> "none", slot |-> 0, cycle |-> 0]]
    /\ calls    = [a \in Attempts |-> <<>>]
    /\ attempts = 0
    /\ halted   = {}

\* The supervisor as constructed: open, its pool running, nothing subscribed,
\* no session attached.
InitSupervisor ==
    /\ closed_ = FALSE
    /\ cpc = "idle"
    /\ closes = 0
    /\ pool = "running"
    /\ keys_ = 0
    /\ stop_subscriber_ = [stopped |-> FALSE, subs |-> {}]
    /\ connect_subscriber_ = [stopped |-> FALSE, subs |-> {}]
    /\ attached = {}
    /\ order = <<>>
    /\ handlers = [h \in Subscribers |-> NoSubscription]
    /\ manual_ = FALSE
    /\ broadcaster_ = FALSE
    /\ hstopped = FALSE
    /\ rpc = "idle"
    /\ runs = <<>>
    /\ istopped = TRUE
    /\ acceptors = 0
    /\ astopped = 0
    /\ icodes = <<>>
    /\ starts = <<>>
    /\ spc = "idle"
    /\ ping = NoPing
    /\ seed = NoSeed
    /\ dist = NoDist
    /\ cpeer = NoPeer

\* No channel presented to the supervisor.
InitNet ==
    /\ InitSupervisor
    /\ acceptCode = Success
    /\ hostsCode = Success
    /\ nonces_ = {}
    /\ inbound_channel_count_ = 0
    /\ total_channel_count_ = 0
    /\ reserved = {}
    /\ chan = <<>>
    /\ cphase = <<>>
    /\ cres = <<>>

(***************************************************************************)
(* SpecConnector: one connector driven directly by a caller on the strand  *)
(* (as the connector tests do): connect, stop, and reuse once the previous *)
(* attempt's handler has been invoked.                                     *)
(***************************************************************************)
CallerConnect ==
    /\ attempts < MaxAttempts
    /\ attempts > 0 => calls[attempts] # <<>>
    /\ Apply(connector_connect(St, 1, [k |-> "caller", slot |-> 0, cycle |-> 0]))

\* The connect calls of connector c whose resolve or socket connect is
\* pending while their connect timer is still armed.
InProgress(s, c) ==
    {a \in Attempts : /\ s.timer[c] = a
                      /\ \E p \in s.pending : p.c = c /\ p.a = a}

CallerStop ==
    /\ attempts > 0
    /\ Apply(connector_stop(
                 [St EXCEPT !.halted = @ \cup InProgress(St, 1)], 1))

NextConnector ==
    \/ CallerConnect
    \/ CallerStop
    \/ StrandRun
    \/ TimerExpire
    \/ ResolveComplete
    \/ SocketComplete

InitConnector ==
    /\ InitConn
    /\ InitSession
    /\ InitNet
    /\ settings = DefaultSettings
    /\ hostPool = {}

SpecConnector == InitConnector /\ [][NextConnector]_vars

\* Something of connect attempt a is still outstanding.
InFlight(a) ==
    \/ \E p \in pending : p.a = a
    \/ \E i \in 1..Len(strand) : strand[i].a = a
    \/ \E c \in Connectors : timer_[c] = a

\* The invocations of attempt a's handler that report a completion of the
\* attempt or the expiry of its timer: the notice a cancelled deadline posts
\* (operation_canceled) is left aside, so that what follows does not rest on
\* how the deadline reports cancellation.
Outcomes(a) == SelectSeq(calls[a], LAMBDA ec : ec # "operation_canceled")

\* C1 (as stated): the handler of every connect call is invoked at most once
\* with an outcome of the attempt, whatever the order of timer expiry and
\* resolve/connect completion, and it has been invoked once nothing of the
\* attempt remains in flight.
C1_HandlerExactlyOnce ==
    \A a \in 1..attempts :
        /\ Len(Outcomes(a)) <= 1
        /\ ~InFlight(a) => Len(calls[a]) >= 1

(***************************************************************************)
(* SpecOutbound: the outbound session, its batches of connectors and the   *)
(* channels it adopts.                                                     *)
(***************************************************************************)
OutboundStart ==
    /\ started = <<>>
    /\ \E pk \in Picks : Apply(out_start(WithPick(pk)))

NextOutbound ==
    \/ OutboundStart
    \/ SessionStop
    \/ StrandRun
    \/ TimerExpire
    \/ ResolveComplete
    \/ SocketComplete
    \/ ChannelStart
    \/ ChannelStop

InitOutbound ==
    /\ InitConn
    /\ InitSession
    /\ InitNet
    /\ settings \in OutboundSettings
    /\ hostPool \in {{}, Hosts}

SpecOutbound == InitOutbound /\ [][NextOutbound]_vars

\* The outbound session with two slots of two connectors, its resolves and
\* socket connects completing in any order (no connect timer expires).
NextSlots ==
    \/ OutboundStart
    \/ StrandRun
    \/ ResolveComplete
    \/ SocketComplete

InitSlots ==
    /\ InitConn
    /\ InitSession
    /\ InitNet
    /\ settings \in SlotsSettings
    /\ hostPool = Hosts

SpecSlots == InitSlots /\ [][NextSlots]_vars

\* Number of entries of bag b that satisfy P.
CountIn(b, P(_)) == BagCardinality([x \in {y \in DOMAIN b : P(y)} |-> b[x]])

\* Number of batch completions of cycle cy of slot p with code ec.
Completions(p, cy, ec) ==
    LET P(x) == x.slot = p /\ x.cycle = cy /\ x.ec = ec
    IN CountIn(completes, P)

\* The error codes a connector completes with.
ConnectorErrors ==
    {"channel_stopped", "channel_timeout", "operation_canceled",
     "resolve_failed", "connect_failed"}

\* Number of handle_batch calls of cycle cy of slot p: with a connector's
\* error, in all.
BatchErrors(p, cy) ==
    LET P(x) == x.slot = p /\ x.cycle = cy /\ x.ec \in ConnectorErrors
    IN CountIn(hb, P)

BatchCalls(p, cy) ==
    LET P(x) == x.slot = p /\ x.cycle = cy
    IN CountIn(hb, P)

\* C2 (as stated): in each batch cycle the completion handler is invoked at
\* most once with success (at most one channel is adopted per cycle).
C2_OneAdoptionPerCycle ==
    \A p \in Slots : \A cy \in 1..cycles[p] : Completions(p, cy, Success) <= 1

\* C3 (as stated): while the session is not stopped, a cycle all of whose
\* batch_ connectors completed with an error has had its completion handler
\* invoked exactly once with connect_failed, and a new cycle has started.
C3_FailedBatchRetries ==
    \A p \in Slots : \A cy \in 1..cycles[p] :
        ( /\ ~sstopped
          /\ BatchCalls(p, cy) = batch_
          /\ BatchErrors(p, cy) = batch_ )
        => /\ Completions(p, cy, "connect_failed") = 1
           /\ cycles[p] > cy

(***************************************************************************)
(* SpecManual: the manual session: one connector and one retry loop per    *)
(* endpoint, all sharing the session's timer.                              *)
(***************************************************************************)
ManualStart ==
    /\ started = <<>>
    /\ Apply(man_start(St))

\* p2p::connect(endpoint, handler) -> session_manual::connect.
ManualConnect ==
    \E e \in Endpoints :
        /\ mconnect[e].at = "none"
        /\ Apply(man_connect(NoteConnect(St, e), e))

NextManual ==
    \/ ManualStart
    \/ ManualConnect
    \/ SessionStop
    \/ SessionTimerExpire
    \/ StrandRun
    \/ TimerExpire
    \/ ResolveComplete
    \/ SocketComplete
    \/ ChannelStart
    \/ ChannelStop

InitManual ==
    /\ InitConn
    /\ InitSession
    /\ InitNet
    /\ settings = DefaultSettings
    /\ hostPool = {}

SpecManual == InitManual /\ [][NextManual]_vars

\* SpecManualOne: the manual session maintaining a single connection (one
\* connect call, for either endpoint), through all of its retries.
ManualConnectOne ==
    /\ \A e \in Endpoints : mconnect[e].at = "none"
    /\ ManualConnect

NextManualOne ==
    \/ ManualStart
    \/ ManualConnectOne
    \/ SessionStop
    \/ SessionTimerExpire
    \/ StrandRun
    \/ TimerExpire
    \/ ResolveComplete
    \/ SocketComplete
    \/ ChannelStart
    \/ ChannelStop

SpecManualOne == InitManual /\ [][NextManualOne]_vars

\* Attempts made for manual endpoint e.
ManualAttempts(e) ==
    {a \in 1..attempts : handler_[a].k = "manual" /\ handler_[a].slot = e}

Failed(a) ==
    \E i \in 1..Len(calls[a]) : calls[a][i] \notin {Success, "service_stopped"}

RetryPending(e) ==
    \/ stimer = e
    \/ \E i \in 1..Len(strand) :
          strand[i].t = "session_timer" /\ strand[i].c = e

\* C4 (as stated): while the session is not stopped, every failed connect
\* attempt of a manual endpoint is followed by another attempt for it (made,
\* or still pending on the session timer), and a retry is only ever issued by
\* the expiry of the timer, never before it.
C4_RetryAfterTimer ==
    ~sstopped =>
        \A e \in Endpoints :
            /\ \A a \in ManualAttempts(e) :
                  Failed(a) =>
                      \/ \E b \in ManualAttempts(e) : b > a
                      \/ RetryPending(e)
            /\ \A i \in 1..Len(retried[e]) : retried[e][i] = Success

\* The indices of the caller's handler invocations for endpoint e that
\* announce a connection.
Fired(e) == {i \in 1..Len(ucalls[e]) : ucalls[e][i].ec = Success}

\* C11 (as stated): the caller's handler of a manual connect fires for a
\* later connection of its endpoint only if it returned true when it fired
\* for the connection before.
C11_FiresAgainOnlyIfTrue ==
    \A e \in Endpoints :
        \A i \in Fired(e), j \in Fired(e) : i < j => ucalls[e][i].ret

\* The codes a connector passed to the handler of attempt a.
Codes(q) == {q[i] : i \in 1..Len(q)}

\* C12 (as stated): every failed attempt of a manual connection has been
\* reported to the caller's handler with the attempt's code and a null
\* channel, and the handler never receives an error code together with a
\* channel.
C12_FailuresReported ==
    \A e \in Endpoints :
        /\ \A a \in ManualAttempts(e) :
              \A ec \in Codes(calls[a]) \ {Success, "service_stopped"} :
                  \E i \in 1..Len(ucalls[e]) :
                      ucalls[e][i].ec = ec /\ ucalls[e][i].ch = 0
        /\ \A i \in 1..Len(ucalls[e]) :
              ucalls[e][i].ec # Success => ucalls[e][i].ch = 0

\* C13: session_manual::connect called on a stopped session (never started,
\* or stopped) invokes the caller's handler exactly once, with
\* service_stopped and no channel, and no connector is created or used for
\* the endpoint.
C13_StoppedConnectRefused ==
    \A e \in Endpoints :
        mconnect[e].at = "stopped" =>
            /\ Len(ucalls[e]) = 1
            /\ ucalls[e][1].ec = "service_stopped"
            /\ ucalls[e][1].ch = 0
            /\ ManualAttempts(e) = {}
            /\ e \notin sconnectors

\* connect was refused on a session that had been started and stopped, and
\* on one never started.
C13_Witness ==
    /\ started # <<>>
    /\ mconnect[2].at = "stopped"
    /\ Len(ucalls[2]) = 1

\* C14: when a connector delivers success to the manual session after the
\* session has stopped, the caller's handler gets service_stopped with no
\* channel, the new channel is stopped with service_stopped, and it is
\* never started afterwards.
C14_SuccessAfterStopRefused ==
    /\ [][\A a \in Attempts :
            ( /\ sstopped
              /\ handler_[a].k = "manual"
              /\ Success \notin Codes(calls[a])
              /\ Success \in Codes(calls'[a]) )
            => /\ ucalls'[handler_[a].slot] =
                      Append(ucalls[handler_[a].slot],
                             [ec |-> "service_stopped", ch |-> 0,
                              ret |-> HandlerReturns(handler_[a].slot)])
               /\ channels'[a] = "service_stopped"]_vars
    /\ [][\A a \in Attempts :
            channels[a] = "service_stopped" =>
                channels'[a] = "service_stopped"]_vars

\* A connect issued by a started session succeeded after the session
\* stopped.
C14_Witness ==
    \E a \in Attempts :
        /\ handler_[a].k = "manual"
        /\ mconnect[handler_[a].slot].at = "started"
        /\ channels[a] = "service_stopped"
        /\ sstopped

(***************************************************************************)
(* p2p: loopback nonces and channel counting with address deconfliction.   *)
(* The supervisor's fields are gathered in a record so that count_channel  *)
(* and what it calls compose as functions.                                 *)
(***************************************************************************)
Channels == 1..MaxChannels

Authorities == {"a1", "a2"}

\* The nonce a peer's version may carry: channel 1's own nonce (a channel's
\* nonce is its identity) or a foreign one (0).
PeerNonces == {0, 1}

\* Inbound, outbound and seed (outbound, quiet) channels.
ChannelKinds ==
    { k \in [inbound : BOOLEAN, quiet : BOOLEAN, authority : Authorities,
             peer_nonce : PeerNonces] : ~(k.inbound /\ k.quiet) }

Net ==
    [ closed   |-> closed_,
      nonces   |-> nonces_,
      inbound  |-> inbound_channel_count_,
      total    |-> total_channel_count_,
      reserved |-> reserved ]

\* A plausible slip: the nonce of every channel stored.
store_nonce_always(n, ch) == [n EXCEPT !.nonces = @ \cup {ch}]

\* p2p::store_nonce / p2p::unstore_nonce: the nonce set after the call.
p2p_store_nonce(n, ch) ==
    IF settings.enable_loopback \/ chan[ch].inbound THEN n
    ELSE [n EXCEPT !.nonces = @ \cup {ch}]

p2p_unstore_nonce(n, ch) ==
    IF settings.enable_loopback \/ chan[ch].inbound THEN n
    ELSE [n EXCEPT !.nonces = @ \ {ch}]

\* A plausible slip: the lookup made for outbound channels.
is_loopback_outbound(n, ch) ==
    IF settings.enable_loopback \/ chan[ch].inbound THEN FALSE
    ELSE chan[ch].peer_nonce \in n.nonces

\* p2p::is_loopback
p2p_is_loopback(n, ch) ==
    IF settings.enable_loopback \/ ~chan[ch].inbound THEN FALSE
    ELSE chan[ch].peer_nonce \in n.nonces

\* hosts::reserve / hosts::unreserve: insert into / erase from the reserved
\* authorities; reserve fails for an authority already there.
hosts_reserve(n, a) ==
    IF a \in n.reserved THEN [ok |-> FALSE, n |-> n]
    ELSE [ok |-> TRUE, n |-> [n EXCEPT !.reserved = @ \cup {a}]]

hosts_unreserve(n, a) == [n EXCEPT !.reserved = @ \ {a}]

\* A plausible slip: the result of hosts_.reserve ignored.
count_channel_unreserved(n, ch) ==
    LET c == chan[ch]
        r == hosts_reserve(n, c.authority)
    IN IF n.closed THEN [code |-> "service_stopped", n |-> n]
       ELSE IF p2p_is_loopback(n, ch) THEN [code |-> "accept_failed", n |-> n]
       ELSE [ code |-> Success,
              n |-> [r.n EXCEPT
                  !.inbound = IF c.inbound THEN @ + 1 ELSE @,
                  !.total = IF ~c.quiet THEN @ + 1 ELSE @] ]

\* A plausible slip: the channel counted before its authority is reserved.
count_channel_eager(n, ch) ==
    LET c == chan[ch]
        m == [n EXCEPT !.inbound = IF c.inbound THEN add1(@) ELSE @,
                       !.total = IF ~c.quiet THEN add1(@) ELSE @]
        r == hosts_reserve(m, c.authority)
    IN IF n.closed THEN [code |-> "service_stopped", n |-> n]
       ELSE IF p2p_is_loopback(n, ch) THEN [code |-> "accept_failed", n |-> n]
       ELSE IF c.inbound /\ add1(n.inbound) = 0
            THEN [code |-> "channel_overflow", n |-> n]
       ELSE IF ~c.quiet /\ add1(n.total) = 0
            THEN [code |-> "channel_overflow", n |-> n]
       ELSE IF ~r.ok THEN [code |-> "address_in_use", n |-> r.n]
       ELSE [code |-> Success, n |-> r.n]

\* p2p::count_channel: the code returned and the supervisor after the call.
p2p_count_channel(n, ch) ==
    LET c == chan[ch]
        r == hosts_reserve(n, c.authority)
    IN IF n.closed THEN [code |-> "service_stopped", n |-> n]
       ELSE IF p2p_is_loopback(n, ch) THEN [code |-> "accept_failed", n |-> n]
       ELSE IF c.inbound /\ add1(n.inbound) = 0
            THEN [code |-> "channel_overflow", n |-> n]
       ELSE IF ~c.quiet /\ add1(n.total) = 0
            THEN [code |-> "channel_overflow", n |-> n]
       ELSE IF ~r.ok THEN [code |-> "address_in_use", n |-> r.n]
       ELSE [ code |-> Success,
              n |-> [r.n EXCEPT
                  !.inbound = IF c.inbound THEN @ + 1 ELSE @,
                  !.total = IF ~c.quiet THEN @ + 1 ELSE @] ]

\* A plausible slip: the reservation kept when the channel is uncounted.
uncount_channel_reserved(n, ch) ==
    LET c == chan[ch]
    IN [n EXCEPT !.inbound = IF c.inbound THEN @ - 1 ELSE @,
                 !.total = IF ~c.quiet THEN @ - 1 ELSE @]

\* p2p::uncount_channel
\* A plausible slip: each counter tested and decremented on its own.
uncount_channel_each(n, ch) ==
    LET c == chan[ch]
        u == hosts_unreserve(n, c.authority)
    IN [u EXCEPT !.inbound = IF c.inbound /\ @ # 0 THEN @ - 1 ELSE @,
                 !.total = IF ~c.quiet /\ @ # 0 THEN @ - 1 ELSE @]

p2p_uncount_channel(n, ch) ==
    LET c == chan[ch]
        u == hosts_unreserve(n, c.authority)
    IN IF c.inbound /\ u.inbound = 0 THEN u
       ELSE IF ~c.quiet /\ u.total = 0 THEN u
       ELSE [u EXCEPT !.inbound = IF c.inbound THEN @ - 1 ELSE @,
                      !.total = IF ~c.quiet THEN @ - 1 ELSE @]

ApplyNet(n) ==
    /\ nonces_' = n.nonces
    /\ inbound_channel_count_' = n.inbound
    /\ total_channel_count_' = n.total
    /\ reserved' = n.reserved

(***************************************************************************)
(* SpecCount: channels of every kind go through their life against the     *)
(* supervisor: the session stores the channel's nonce before the           *)
(* handshake, counts the channel when the peer's version has arrived, and  *)
(* on channel stop unstores the nonce and uncounts a channel it counted.   *)
(***************************************************************************)
\* session::start_channel -> p2p::store_nonce
ChannelStoreNonce ==
    \E ch \in Channels :
        /\ cphase[ch] = "new"
        /\ ApplyNet(p2p_store_nonce(Net, ch))
        /\ cphase' = [cphase EXCEPT ![ch] = "stored"]
        /\ UNCHANGED <<connVars, settings, hostPool, sessVars, netVars,
                       protoVars, acceptCode, hostsCode, chan, cres>>

\* The handshake completes -> p2p::count_channel; a refused channel is
\* stopped by the session.
ChannelCount ==
    \E ch \in Channels :
        /\ cphase[ch] = "stored"
        /\ LET r == p2p_count_channel(Net, ch)
           IN /\ ApplyNet(r.n)
              /\ cphase' = [cphase EXCEPT ![ch] =
                     IF r.code = Success THEN "counted" ELSE "refused"]
              /\ cres' = [cres EXCEPT ![ch] =
                     [ code     |-> r.code,
                       reserved |-> chan[ch].authority \in reserved,
                       hit      |-> chan[ch].peer_nonce \in nonces_,
                       closed   |-> closed_,
                       kept     |-> /\ r.n.inbound = inbound_channel_count_
                                    /\ r.n.total = total_channel_count_
                                    /\ r.n.reserved = reserved ]]
        /\ UNCHANGED <<connVars, settings, hostPool, sessVars, netVars,
                       protoVars, acceptCode, hostsCode, chan>>

\* The channel stops: p2p::unstore_nonce, and p2p::uncount_channel if and only
\* if the channel was counted.
ChannelStopped ==
    \E ch \in Channels :
        /\ cphase[ch] \in {"stored", "counted", "refused"}
        /\ LET u == p2p_unstore_nonce(Net, ch)
           IN ApplyNet(IF cphase[ch] = "counted"
                       THEN p2p_uncount_channel(u, ch) ELSE u)
        /\ cphase' = [cphase EXCEPT ![ch] = "stopped"]
        /\ UNCHANGED <<connVars, settings, hostPool, sessVars, netVars,
                       protoVars, acceptCode, hostsCode, chan, cres>>

NextCount ==
    \/ ChannelStoreNonce
    \/ ChannelCount
    \/ ChannelStopped
    \/ CloseLatch

NoCall ==
    [code |-> "none", reserved |-> FALSE, hit |-> FALSE, closed |-> FALSE,
     kept |-> TRUE]

InitCount ==
    /\ InitConn
    /\ InitSession
    /\ settings \in {[DefaultSettings EXCEPT !.enable_loopback = b] :
                        b \in BOOLEAN}
    /\ hostPool = {}
    /\ InitSupervisor
    /\ acceptCode = Success
    /\ hostsCode = Success
    /\ nonces_ = {}
    /\ inbound_channel_count_ = 0
    /\ total_channel_count_ = 0
    /\ reserved = {}
    /\ chan \in [Channels -> ChannelKinds]
    /\ cphase = [ch \in Channels |-> "new"]
    /\ cres = [ch \in Channels |-> NoCall]

SpecCount == InitCount /\ [][NextCount]_vars

Counted == {ch \in Channels : cphase[ch] = "counted"}

Called == {ch \in Channels : cres[ch].code # "none"}

\* The call for ch was refused before the reservation was tried: the network
\* was closed or the channel was a loopback.
RefusedEarlier(ch) ==
    \/ cres[ch].closed
    \/ ~settings.enable_loopback /\ chan[ch].inbound /\ cres[ch].hit

C8_CountsMatchChannels ==
    /\ inbound_channel_count_ =
          Cardinality({ch \in Counted : chan[ch].inbound})
    /\ total_channel_count_ =
          Cardinality({ch \in Counted : ~chan[ch].quiet})
    /\ reserved = {chan[ch].authority : ch \in Counted}

C8_Witness ==
    /\ \E ch \in Counted : chan[ch].inbound
    /\ \E ch \in Channels :
          /\ cphase[ch] = "stopped"
          /\ cres[ch].code = Success
          /\ ~chan[ch].quiet

(***************************************************************************)
(* SpecClose: callers subscribe and unsubscribe handlers while the owner   *)
(* closes the supervisor, once and again.                                  *)
(***************************************************************************)
NextClose ==
    \/ SubscribeCheck
    \/ SubscribePost
    \/ Unsubscribe
    \/ NotifyConnect
    \/ CloseLatch
    \/ CloseDispatch
    \/ CloseJoin
    \/ CloseHosts
    \/ StrandRun

InitClose ==
    /\ InitConn
    /\ InitSession
    /\ InitNet
    /\ settings = DefaultSettings
    /\ hostPool = {}

SpecClose == InitClose /\ [][NextClose]_vars

\* The handler of h is still held by a subscriber, or was when it stopped.
Subscribed(h) ==
    /\ handlers[h].done = Success
    /\ ~handlers[h].dropped
    /\ "desubscribed" \notin handlers[h].seen

\* What a repeated close must leave alone.
Closed ==
    <<closed_, pool, keys_, stop_subscriber_, connect_subscriber_, attached,
      handlers, manual_, broadcaster_, hstopped>>

\* C5: close latches closed for good; once a close has returned every handler
\* that a stop or connect subscriber retained has been invoked exactly once
\* with service_stopped and nothing is retained; no handler is ever invoked
\* twice with it; a repeated close changes no state and invokes no handler.
C5_CloseOnce ==
    /\ [](\A h \in Subscribers :
            /\ handlers[h].stops <= 1
            /\ closes >= 1 =>
                  /\ closed_
                  /\ Subscribed(h) => handlers[h].stops = 1
                  /\ Retained(stop_subscriber_) = {}
                  /\ Retained(connect_subscriber_) = {})
    /\ [][closed_ => closed_']_vars
    /\ [][(closes >= 1 /\ cpc' # cpc) => UNCHANGED Closed]_vars

C5_Witness ==
    /\ closes = 2
    /\ \E h \in Subscribers :
          /\ handlers[h].kind = "close"
          /\ Subscribed(h)
          /\ handlers[h].stops = 1
    /\ \E h \in Subscribers :
          /\ handlers[h].kind = "connect"
          /\ Subscribed(h)
          /\ handlers[h].stops = 1

(***************************************************************************)
(* SpecRun: the owner runs the supervisor (inbound session, then outbound  *)
(* session) and closes it; the outbound session drives its connectors.     *)
(***************************************************************************)
RunSettings ==
    { [DefaultSettings EXCEPT !.outbound_connections = o,
                              !.connect_batch_size = 1,
                              !.inbound_connections = i,
                              !.inbound_port = p] :
        o \in {0, 1}, i \in {0, 1}, p \in {0, 42} }

NextRun ==
    \/ RunCheck
    \/ RunPost
    \/ CloseLatch
    \/ CloseDispatch
    \/ CloseJoin
    \/ CloseHosts
    \/ StrandRun
    \/ TimerExpire
    \/ ResolveComplete
    \/ SocketComplete
    \/ ChannelStart
    \/ ChannelStop

InitRun ==
    /\ InitConn
    /\ InitSession
    /\ InitSupervisor
    /\ acceptCode \in {Success, "invalid_magic"}
    /\ hostsCode = Success
    /\ nonces_ = {}
    /\ inbound_channel_count_ = 0
    /\ total_channel_count_ = 0
    /\ reserved = {}
    /\ chan = <<>>
    /\ cphase = <<>>
    /\ cres = <<>>
    /\ settings \in RunSettings
    /\ hostPool = Hosts

SpecRun == InitRun /\ [][NextRun]_vars

\* C9: with outbound_connections 0 the outbound session's start hands its
\* handler success, creates no connector and leaves the session stopped;
\* with inbound_connections 0 the inbound session's start hands its handler
\* success, creates no acceptor and leaves the session stopped.
C9_DisabledSessionBypassed ==
    /\ (settings.outbound_connections = 0 /\ started # <<>>) =>
          /\ started = <<Success>>
          /\ sstopped
          /\ sconnectors = {}
          /\ attempts = 0
    /\ (settings.inbound_connections = 0 /\ icodes # <<>>) =>
          /\ icodes = <<Success>>
          /\ istopped
          /\ acceptors = 0

C9_Witness ==
    /\ settings.outbound_connections = 0
    /\ settings.inbound_connections = 0
    /\ started = <<Success>>
    /\ icodes = <<Success>>
    /\ runs = <<Success>>

\* C10: run hands its handler the inbound session's start code, with the
\* outbound session never started, exactly when that code is an error other
\* than bypassed; otherwise the outbound session is started once and run
\* hands on its code; bypassed is always handed on as success.
C10_RunReportsStartCodes ==
    /\ \A i \in 1..Len(runs) : runs[i] # "bypassed"
    /\ icodes # <<>> =>
          /\ Len(icodes) = 1
          /\ IF icodes[1] \notin {Success, "bypassed"}
             THEN runs = icodes /\ started = <<>>
             ELSE /\ Len(started) = 1
                  /\ runs = <<IF started[1] = "bypassed" THEN Success
                              ELSE started[1]>>
    /\ icodes = <<>> => started = <<>>

C10_Witness ==
    /\ icodes = <<"bypassed">>
    /\ started = <<Success>>
    /\ runs = <<Success>>
    /\ settings.outbound_connections = 1

(***************************************************************************)
(* SpecPeers: the supervisor started and then run with configured peers,   *)
(* up to the first outcome of each peer's connection and with a close that *)
(* may come at any point.  The session whose state is followed is the      *)
(* manual one (the outbound session is disabled).                          *)
(***************************************************************************)
\* settings.peers: none, one, or two endpoints in either order.
PeerLists == {<<>>, <<1>>, <<1, 2>>, <<2, 1>>}

\* Inbound enabled, with a port to listen on (42) or without (0).
PeersSettings ==
    { [DefaultSettings EXCEPT !.inbound_connections = 1,
                              !.inbound_port = p,
                              !.peers = ps] :
        p \in {0, 42}, ps \in PeerLists }

\* run is called from the handler of a successful start.
RunAfterStart ==
    /\ starts = <<Success>>
    /\ RunCheck

NextPeers ==
    \/ StartDispatch
    \/ RunAfterStart
    \/ RunPost
    \/ CloseLatch
    \/ CloseDispatch
    \/ StrandRun
    \/ TimerExpire
    \/ ResolveComplete
    \/ SocketComplete

InitPeers ==
    /\ InitConn
    /\ InitSession
    /\ InitSupervisor
    /\ acceptCode \in {Success, "invalid_magic"}
    /\ hostsCode = Success
    /\ nonces_ = {}
    /\ inbound_channel_count_ = 0
    /\ total_channel_count_ = 0
    /\ reserved = {}
    /\ chan = <<>>
    /\ cphase = <<>>
    /\ cres = <<>>
    /\ settings \in PeersSettings
    /\ settings.inbound_port = 0 => acceptCode = Success
    /\ hostPool = {}

SpecPeers == InitPeers /\ [][NextPeers]_vars

\* C15: once run has started the inbound session, a manual connect has been
\* issued for every endpoint of settings.peers, in configured order, each
\* before the inbound start and before the run handler was invoked; and the
\* code run reported is the one the session starts gave, whatever became of
\* those connections.
C15_PeersConnectedAtRun ==
    icodes # <<>> =>
        /\ \A i \in 1..Len(settings.peers) :
              LET e == settings.peers[i]
              IN /\ mconnect[e].at = "started"
                 /\ mconnect[e].n = i
                 /\ mconnect[e].icodes = 0
                 /\ mconnect[e].runs = 0
                 /\ ManualAttempts(e) # {}
        /\ runs = <<IF icodes[1] \in {Success, "bypassed"} THEN Success
                    ELSE icodes[1]>>

\* Two peers were connected in configured order, run reported success, and
\* a connection to a peer has failed since.
C15_Witness ==
    /\ settings.peers = <<2, 1>>
    /\ mconnect[2].n = 1
    /\ mconnect[1].n = 2
    /\ runs = <<Success>>
    /\ \E a \in ManualAttempts(2) : Failed(a)

(***************************************************************************)
(* SpecLifecycle: a session (the manual one, whose start always reaches    *)
(* session::start) started and stopped any number of times in any order,   *)
(* around one maintained connection.                                       *)
(***************************************************************************)
LifeStart ==
    /\ Len(started) < MaxStarts
    /\ Apply(man_start(St))

LifeStop == Apply(session_stop(St))

\* session_manual::connect for one endpoint, once.
LifeConnect ==
    /\ mconnect[1].at = "none"
    /\ Apply(man_connect(NoteConnect(St, 1), 1))

NextLifecycle ==
    \/ LifeStart
    \/ LifeStop
    \/ LifeConnect
    \/ StrandRun
    \/ TimerExpire
    \/ ResolveComplete
    \/ SocketComplete

SpecLifecycle == InitManual /\ [][NextLifecycle]_vars

\* C16: a session is stopped until started; a start that finds it stopped
\* completes with success and leaves it not stopped; a start that finds it
\* started completes with operation_failed and leaves it started; a stop
\* leaves it stopped, and a stop that finds it stopped changes neither that
\* nor any start result.  (A session whose start is bypassed by its
\* configuration never reaches session::start: see C9.)
C16_SessionLifecycle ==
    /\ [](started = <<>> => sstopped)
    /\ [][Len(started') > Len(started) =>
            /\ started' = Append(started, IF sstopped THEN Success
                                          ELSE "operation_failed")
            /\ ~sstopped']_vars
    /\ [][LifeStop => sstopped' /\ started' = started]_vars
    /\ [][sstopped' # sstopped =>
            \/ LifeStop
            \/ Len(started') > Len(started)]_vars

\* A session was started, started again (refused), stopped, and started
\* once more.
C16_Witness ==
    /\ started = <<Success, "operation_failed", Success>>
    /\ ~sstopped

(***************************************************************************)
(* protocol_ping_60001 on one channel: heartbeats, pings and pongs.        *)
(***************************************************************************)
\* constexpr uint64_t received = zero
received == 0

\* pseudo_random::next(add1(minimum_nonce), max_int64): nonces from 2 up.
PingNonces == {2, 3}

\* The nonce a peer's pong may carry.
PongNonces == {0, 2, 3}

\* protocol::stop(ec): the channel latches its first stop code.
ping_stop(p, ec) ==
    IF p.stopped THEN p ELSE [p EXCEPT !.stopped = TRUE, !.code = ec]

\* protocol_ping_60001::send_ping with the nonce drawn.
ping_send_ping(p, n) ==
    IF p.stopped THEN p
    ELSE [p EXCEPT !.nonce = n, !.sent = Append(@, n)]

\* A plausible slip: a pong with the wrong nonce is ignored.
handle_receive_pong_lenient(p, ec, n) ==
    IF p.stopped \/ ec # Success THEN p
    ELSE IF n # p.nonce THEN p
    ELSE [p EXCEPT !.nonce = received]

\* protocol_ping_60001::handle_receive_pong
ping_handle_receive_pong(p, ec, n) ==
    IF p.stopped \/ ec # Success THEN p
    ELSE IF n # p.nonce THEN ping_stop(p, "protocol_violation")
    ELSE [p EXCEPT !.nonce = received]

\* protocol_ping_60001::handle_timer with the nonce the next ping would get.
ping_handle_timer(p, ec, n) ==
    IF p.stopped THEN p
    ELSE IF ec # Success THEN ping_stop(p, ec)
    ELSE IF p.nonce # received
         THEN ping_stop([p EXCEPT !.late = IF @ = -1 THEN Len(p.sent) ELSE @],
                        ec)
    ELSE ping_send_ping(p, n)

\* Actions of this section change the ping protocol only.
PingOnly == UNCHANGED <<connVars, settings, hostPool, sessVars, netVars,
                        acceptCode, hostsCode, countVars, seed, dist, cpeer>>

\* protocol_ping_60001::start: subscribe to pong, start the heartbeat.
PingStart ==
    /\ ~ping.started
    /\ ~ping.stopped
    /\ ping' = [ping EXCEPT !.started = TRUE]
    /\ PingOnly

\* The heartbeat timer fires (or fails): handle_timer runs.
Heartbeat ==
    /\ ping.started
    /\ Len(ping.sent) < MaxPings
    /\ \E ec \in {Success, "bad_stream"}, n \in PingNonces :
          ping' = ping_handle_timer(ping, ec, n)
    /\ PingOnly

\* The distributor hands a received pong to the subscribed handler; after
\* the channel's stop it hands the stop code instead.
ReceivePong ==
    /\ ping.started
    /\ Len(ping.pongs) < MaxPongs
    /\ \E n \in PongNonces :
          LET ec == IF ping.stopped THEN "channel_stopped" ELSE Success
              p  == [ping EXCEPT !.pongs =
                        Append(@, [n |-> n, expected |-> ping.nonce,
                                   ec |-> ec])]
          IN ping' = ping_handle_receive_pong(p, ec, n)
    /\ PingOnly

\* The channel is stopped from elsewhere (peer drop, session stop).
PingChannelStop ==
    /\ ~ping.stopped
    /\ ping' = ping_stop(ping, "service_stopped")
    /\ PingOnly

NextPing ==
    \/ PingStart
    \/ Heartbeat
    \/ ReceivePong
    \/ PingChannelStop

SpecPing == InitManual /\ [][NextPing]_vars

\* C17: while a ping with nonce N is outstanding on a channel that has not
\* stopped, a pong with another nonce stops the channel with
\* protocol_violation, and a pong with nonce N clears the expectation and
\* does not stop the channel.
C17_PongChecked ==
    [][( /\ Len(ping'.pongs) > Len(ping.pongs)
         /\ ~ping.stopped
         /\ ping.nonce # received )
       => IF ping'.pongs[Len(ping'.pongs)].n # ping.nonce
          THEN ping'.stopped /\ ping'.code = "protocol_violation"
          ELSE ~ping'.stopped /\ ping'.nonce = received]_vars

\* A pong answered a ping correctly and a later pong did not.
C17_Witness ==
    /\ Len(ping.pongs) = 2
    /\ ping.pongs[1].expected # received
    /\ ping.pongs[1].n = ping.pongs[1].expected
    /\ ping.pongs[2].expected # received
    /\ ping.pongs[2].n # ping.pongs[2].expected
    /\ ping.code = "protocol_violation"

\* C18 (as stated): when a heartbeat fires while the nonce of the ping sent
\* before has not been cleared, the channel is stopped with channel_timeout
\* and no further ping is sent.
C18_LatePongTimesOut ==
    ping.late # -1 =>
        /\ ping.stopped
        /\ ping.code = "channel_timeout"
        /\ Len(ping.sent) = ping.late

(***************************************************************************)
(* protocol_seed_31402 on one channel.                                     *)
(***************************************************************************)
\* The three events of a seeding exchange.
SeedEvents == {"address", "get_address", "stored"}

\* synchronize(complete, 3, NAME, false)
clearance_count == 3

\* channel stop(ec): the first code is latched and the stop subscription of
\* a started protocol_events is notified.
pseed_stop(q, ec) ==
    IF q.stopped THEN q
    ELSE [q EXCEPT !.stopped = TRUE, !.code = ec, !.timer = FALSE,
                   !.stopnote = q.started /\ q.handler]

\* protocol_seed_31402::handle_seeding_complete: handler(ec); stop(ec).
pseed_handle_seeding_complete(q, ec) ==
    pseed_stop([q EXCEPT !.done = Append(@, [ec |-> ec, events |-> q.events,
                                             error |-> q.error])], ec)

\* The synchronizer: counts successes up to the clearance count, an error
\* clears at once, and a cleared synchronizer ignores every later call.
pseed_synchronize(q, ec) ==
    IF q.counter = clearance_count THEN q
    ELSE LET c == IF ec # Success THEN clearance_count ELSE q.counter + 1
         IN IF c = clearance_count
            THEN pseed_handle_seeding_complete([q EXCEPT !.counter = c], ec)
            ELSE [q EXCEPT !.counter = c]

\* protocol_events::set_event, first half: handler_.load(); a call that
\* finds no handler returns.
set_event_load(q, ec) ==
    IF ~q.handler THEN q
    ELSE [q EXCEPT !.loaded = Append(@, ec)]

\* The sequence q without its i-th element.
DropAt(q, i) == SubSeq(q, 1, i - 1) \o SubSeq(q, i + 1, Len(q))

\* protocol_events::set_event, second half, of the call that is i-th among
\* the calls holding a handler: handler_.store(nullptr) on channel_stopped,
\* then handler(ec), the handler being the seed protocol's synchronizer.
set_event_invoke(q, i) ==
    LET ec == q.loaded[i]
    IN pseed_synchronize(
           [q EXCEPT !.loaded = DropAt(@, i),
                     !.fired = Append(@, ec),
                     !.handler = IF ec = "channel_stopped" THEN FALSE
                                 ELSE @], ec)

\* protocol_events::set_event run without interruption.
pseed_set_event(q, ec) ==
    IF ~q.handler THEN q
    ELSE LET q1 == set_event_load(q, ec)
         IN set_event_invoke(q1, Len(q1.loaded))

\* protocol_events::stopped
pseed_stopped(q) == ~q.handler

\* protocol_seed_31402::send_own_address
pseed_send_own_address(q) ==
    IF settings.self_port = 0
    THEN pseed_set_event([q EXCEPT !.events = @ \cup {"address"}], Success)
    ELSE [q EXCEPT !.sends = @ \cup {"address"}]

\* protocol_seed_31402::start
pseed_start(q) ==
    IF settings.host_pool_capacity = 0
    THEN pseed_handle_seeding_complete(
             [q EXCEPT !.started = TRUE, !.error = TRUE], "not_found")
    ELSE LET q1 == [q EXCEPT !.started = TRUE, !.handler = TRUE,
                             !.timer = TRUE, !.subscribed = TRUE]
             q2 == pseed_send_own_address(q1)
         IN [q2 EXCEPT !.sends = @ \cup {"get_address"}]

\* protocol_seed_31402::handle_send_address / handle_send_get_address
pseed_handle_send(q, which, ec) ==
    IF pseed_stopped(q) THEN q
    ELSE IF ec # Success THEN pseed_set_event([q EXCEPT !.error = TRUE], ec)
    ELSE pseed_set_event([q EXCEPT !.events = @ \cup {which}], Success)

\* protocol_seed_31402::handle_receive_address (returns false: one message)
pseed_handle_receive_address(q, ec) ==
    LET q1 == [q EXCEPT !.subscribed = FALSE]
    IN IF pseed_stopped(q1) THEN q1
       ELSE IF ec # Success
       THEN pseed_set_event([q1 EXCEPT !.error = TRUE], ec)
       ELSE [q1 EXCEPT !.storing = TRUE]

\* protocol_seed_31402::handle_store_addresses
pseed_handle_store_addresses(q, ec) ==
    IF pseed_stopped(q) THEN q
    ELSE IF ec # Success THEN pseed_set_event([q EXCEPT !.error = TRUE], ec)
    ELSE pseed_set_event([q EXCEPT !.events = @ \cup {"stored"}],
                         "channel_stopped")

\* protocol_events::handle_stopped
pseed_handle_stopped(q) == pseed_set_event(q, "channel_stopped")

\* Actions of this section change the seed protocol only.
SeedOnly == UNCHANGED <<connVars, settings, hostPool, sessVars, netVars,
                        acceptCode, hostsCode, countVars, ping, dist, cpeer>>

SeedStart ==
    /\ ~seed.started
    /\ ~seed.stopped
    /\ seed' = pseed_start(seed)
    /\ SeedOnly

\* A write completes; after the channel's stop it completes with an error.
SeedSendDone ==
    /\ \E which \in seed.sends,
          ec \in IF seed.stopped THEN {"channel_stopped"}
                 ELSE {Success, "bad_stream"} :
          seed' = pseed_handle_send([seed EXCEPT !.sends = @ \ {which}],
                                    which, ec)
    /\ SeedOnly

\* The peer's address message is handed to the subscription; after the
\* channel's stop the subscription gets the stop code.
SeedReceive ==
    /\ seed.subscribed
    /\ seed' = pseed_handle_receive_address(
                  seed, IF seed.stopped THEN "channel_stopped" ELSE Success)
    /\ SeedOnly

\* network_.store completes.
SeedStored ==
    /\ seed.storing
    /\ \E ec \in {Success, "file_save"} :
          seed' = pseed_handle_store_addresses(
                      [seed EXCEPT !.storing = FALSE], ec)
    /\ SeedOnly

\* The germination timer expires: set_event(channel_timeout).
SeedTimer ==
    /\ seed.timer
    /\ seed' = pseed_set_event([seed EXCEPT !.timer = FALSE, !.error = TRUE],
                               "channel_timeout")
    /\ SeedOnly

\* The channel is stopped from elsewhere (peer drop, session stop).
SeedChannelStop ==
    /\ seed.started
    /\ ~seed.stopped
    /\ seed' = pseed_stop([seed EXCEPT !.error = TRUE], "bad_stream")
    /\ SeedOnly

\* The channel's stop subscriber notifies the protocol.
SeedStopped ==
    /\ seed.stopnote
    /\ seed' = pseed_handle_stopped([seed EXCEPT !.stopnote = FALSE])
    /\ SeedOnly

NextSeed ==
    \/ SeedStart
    \/ SeedSendDone
    \/ SeedReceive
    \/ SeedStored
    \/ SeedTimer
    \/ SeedChannelStop
    \/ SeedStopped

SeedSettings ==
    { [DefaultSettings EXCEPT !.host_pool_capacity = c, !.self_port = p] :
        c \in {0, 1}, p \in {0, 8333} }

InitSeed ==
    /\ InitConn
    /\ InitSession
    /\ InitNet
    /\ settings \in SeedSettings
    /\ hostPool = {}

SpecSeed == InitSeed /\ [][NextSeed]_vars

\* C19 (as stated): a started seed protocol invokes its completion handler
\* at most once, the channel is stopped when it has, and it is invoked when
\* all three events have happened, or earlier only after an error or the
\* expiry of the seeding timer.
C19_SeedCompletesOnce ==
    /\ Len(seed.done) <= 1
    /\ seed.done # <<>> =>
          /\ seed.stopped
          /\ seed.done[1].events = SeedEvents \/ seed.done[1].error

(***************************************************************************)
(* The distributor of one channel and its typed subscribers.               *)
(***************************************************************************)
\* The order in which stop visits the typed subscribers.
StopOrder == <<"address", "ping", "pong">>

\* What the handler given to the h-th subscribe call returns when it is
\* handed a message: the second one asks to be dropped.
DistHandlerReturns(h) == h # 2

\* Handlers hs are each invoked with (ec, msg).
DistInvoke(d, hs, ec, msg) ==
    [d EXCEPT !.seen = [h \in DistHandlers |->
        IF \E i \in 1..Len(hs) : hs[i] = h
        THEN Append(@[h], [ec |-> ec, msg |-> msg]) ELSE @[h]]]

\* subscriber::subscribe: a stopped subscriber invokes the handler with
\* subscriber_stopped and retains nothing; the code is also returned.
dist_subscribe(d, m) ==
    LET h == Len(d.calls) + 1
        c == [id |-> m, stops |-> Len(d.stops), ret |-> Success]
    IN IF d.stopped[m]
       THEN DistInvoke([d EXCEPT !.calls = Append(@,
                        [c EXCEPT !.ret = "subscriber_stopped"])],
                   <<h>>, "subscriber_stopped", "null")
       ELSE [d EXCEPT !.calls = Append(@, c),
                      !.subscribers[m] = Append(@, h)]

\* subscriber::notify: every handler is invoked, and one that returns false
\* is dropped.
typed_notify(d, m, ec, msg) ==
    LET hs == d.subscribers[m]
        d1 == DistInvoke(d, hs, ec, msg)
    IN [d1 EXCEPT
          !.subscribers[m] =
              SelectSeq(hs, LAMBDA h : DistHandlerReturns(h)),
          !.left = @ \cup {hs[i] : i \in {j \in 1..Len(hs) :
                                            ~DistHandlerReturns(hs[j])}}]

\* subscriber::stop(ec, nullptr): the stop code to every handler, then all
\* are dropped and the subscriber is stopped.
typed_stop(d, m, ec) ==
    LET d1 == DistInvoke(d, d.subscribers[m], ec, "null")
    IN [d1 EXCEPT !.subscribers[m] = <<>>, !.stopped[m] = TRUE]

\* distributor_peer::stop / pump::stop: STOP_SUBSCRIBER for every type.
RECURSIVE stop_subscribers(_, _, _)
stop_subscribers(d, ms, ec) ==
    IF ms = <<>> THEN d
    ELSE stop_subscribers(typed_stop(d, Head(ms), ec), Tail(ms), ec)

\* A stop that leaves the last typed subscriber alone.
dist_stop_partial(d, ec) ==
    stop_subscribers([d EXCEPT !.stops = Append(@, ec)],
                     SubSeq(StopOrder, 1, Len(StopOrder) - 1), ec)

dist_stop(d, ec) ==
    stop_subscribers([d EXCEPT !.stops = Append(@, ec)], StopOrder, ec)

\* The record of one notify call: the id and whether its payload was
\* well-formed, how many handlers the typed subscriber held, whether the
\* payload was deserialised, how many handlers were invoked, the result.
NotifyCall(d, id, valid) ==
    [ id |-> id, valid |-> valid,
      subs |-> IF id \in MessageIds THEN Len(d.subscribers[id]) ELSE 0,
      parsed |-> FALSE, told |-> 0, ec |-> Success ]

\* A do_notify that hands the subscribers whatever deserialisation gave.
do_notify_unchecked(d, m, valid) ==
    LET n == NotifyCall(d, m, valid)
        d1 == typed_notify(d, m, Success,
                           IF valid THEN "message" ELSE "null")
    IN [d1 EXCEPT !.notifies = Append(@,
           [n EXCEPT !.parsed = TRUE, !.told = n.subs,
                     !.ec = IF valid THEN Success ELSE "invalid_message"])]

\* distributor_peer::do_notify
dist_do_notify(d, m, valid) ==
    LET n == NotifyCall(d, m, valid)
    IN IF d.subscribers[m] # <<>>
       THEN IF ~valid
            THEN [d EXCEPT !.notifies = Append(@,
                     [n EXCEPT !.parsed = TRUE, !.ec = "invalid_message"])]
            ELSE LET d1 == typed_notify(d, m, Success, "message")
                 IN [d1 EXCEPT !.notifies = Append(@,
                        [n EXCEPT !.parsed = TRUE, !.told = n.subs])]
       ELSE [d EXCEPT !.notifies = Append(@, n)]

\* distributor_peer::notify / pump::notify
dist_notify(d, id, valid) ==
    IF id \in MessageIds THEN dist_do_notify(d, id, valid)
    ELSE [d EXCEPT !.notifies = Append(@,
             [NotifyCall(d, id, valid) EXCEPT !.ec = "unknown_message"])]

\* Actions of this section change the distributor only.
DistOnly == UNCHANGED <<connVars, settings, hostPool, sessVars, netVars,
                        acceptCode, hostsCode, countVars, ping, seed, cpeer>>

DistSubscribe ==
    /\ Len(dist.calls) < MaxSubscribes
    /\ \E m \in MessageIds : dist' = dist_subscribe(dist, m)
    /\ DistOnly

DistNotify ==
    /\ Len(dist.notifies) < MaxNotifies
    /\ \E id \in MessageIds \cup {"unknown"}, valid \in BOOLEAN :
          dist' = dist_notify(dist, id, valid)
    /\ DistOnly

DistStop ==
    /\ Len(dist.stops) < MaxDistStops
    /\ \E ec \in {"channel_stopped", "bad_stream"} :
          dist' = dist_stop(dist, ec)
    /\ DistOnly

NextDist ==
    \/ DistSubscribe
    \/ DistNotify
    \/ DistStop

SpecDist == InitManual /\ [][NextDist]_vars

\* The invocations of handler h that carry no message.
StopCodes(h) == SelectSeq(dist.seen[h], LAMBDA n : n.msg = "null")

\* Handler h is retained by some typed subscriber.
Holds(h) ==
    \E m \in MessageIds :
        \E i \in 1..Len(dist.subscribers[m]) : dist.subscribers[m][i] = h

\* C20: the first stop(ec) hands (ec, null) exactly once to every handler
\* subscribed at that time, of every message type, and nothing reaches such
\* a handler afterwards, not even from a second stop; a subscribe made
\* after a stop returns subscriber_stopped and is not retained; before any
\* stop no subscriber has been handed a stop code, and a handler that was
\* dropped before the stop is never handed one.
C20_StopNotifiesOnce ==
    \A h \in 1..Len(dist.calls) :
        LET c == dist.calls[h]
        IN /\ c.stops = 0 /\ h \notin dist.left =>
                 /\ c.ret = Success
                 /\ IF dist.stops = <<>>
                    THEN StopCodes(h) = <<>> /\ Holds(h)
                    ELSE /\ StopCodes(h)
                              = <<[ec |-> dist.stops[1], msg |-> "null"]>>
                         /\ dist.seen[h][Len(dist.seen[h])].msg = "null"
           /\ h \in dist.left => StopCodes(h) = <<>>
           /\ c.stops > 0 => c.ret = "subscriber_stopped"
           /\ dist.stops # <<>> => ~Holds(h)

\* Two handlers of different message types were subscribed, one of them
\* was handed a message, both were stopped with the first of two stop
\* codes, and a later subscribe was refused.
C20_Witness ==
    /\ Len(dist.stops) = 2
    /\ dist.stops[1] # dist.stops[2]
    /\ Len(dist.calls) = 3
    /\ dist.calls[1].id # dist.calls[2].id
    /\ dist.calls[1].stops = 0
    /\ dist.calls[2].stops = 0
    /\ dist.calls[3].stops = 1
    /\ Len(dist.seen[1]) = 2
    /\ dist.left = {}

\* C21: a handler that a typed subscriber retained is only ever invoked
\* with success and a message, or with the code of a stop and no message;
\* a notify whose payload does not deserialise returns invalid_message and
\* invokes nobody; a notify for an id whose subscriber is empty returns
\* success without deserialising.
C21_SubscribersSeeMessageOrStop ==
    /\ \A h \in 1..Len(dist.calls) :
          dist.calls[h].ret = Success =>
              \A i \in 1..Len(dist.seen[h]) :
                  LET n == dist.seen[h][i]
                  IN \/ n.ec = Success /\ n.msg = "message"
                     \/ /\ n.msg = "null"
                        /\ \E k \in 1..Len(dist.stops) : n.ec = dist.stops[k]
    /\ \A j \in 1..Len(dist.notifies) :
          LET n == dist.notifies[j]
          IN /\ n.subs > 0 /\ ~n.valid =>
                   n.ec = "invalid_message" /\ n.told = 0
             /\ n.id \in MessageIds /\ n.subs = 0 =>
                   n.ec = Success /\ ~n.parsed /\ n.told = 0
             /\ n.subs > 0 /\ n.valid => n.ec = Success /\ n.told = n.subs

\* A payload that does not deserialise was offered to a subscriber that
\* held a handler, and that handler was later stopped.
C21_Witness ==
    /\ Len(dist.notifies) = 1
    /\ dist.notifies[1].subs = 1
    /\ ~dist.notifies[1].valid
    /\ dist.notifies[1].ec = "invalid_message"
    /\ dist.calls # <<>>
    /\ dist.calls[1].id = dist.notifies[1].id
    /\ dist.seen[1] = <<[ec |-> "bad_stream", msg |-> "null"]>>

(***************************************************************************)
(* channel_peer: the send path.                                            *)
(***************************************************************************)
\* channel::stop(ec): the first code is latched; by is the send whose
\* handle_send made the call, 0 for a call from elsewhere.
peer_stop(c, by, ec) ==
    [c EXCEPT !.stopped = TRUE,
              !.code = IF c.stopped THEN @ ELSE ec,
              !.log = Append(@, [op |-> "stop", n |-> by, ec |-> ec])]

\* The completion handler given to send is invoked.
peer_complete(c, n, ec) ==
    [c EXCEPT !.done[n] = Append(@, ec),
              !.log = Append(@, [op |-> "handler", n |-> n, ec |-> ec])]

\* A handle_send that never stops the channel.
handle_send_silent(c, n, ec) == peer_complete(c, n, ec)

\* channel_peer::handle_send: if (ec) stop(ec); handler(ec).
peer_handle_send(c, n, ec) ==
    peer_complete(IF ec # Success THEN peer_stop(c, n, ec) ELSE c, n, ec)

\* channel_peer::send: a message that does not serialise completes at once
\* with bad_alloc, any other is written.
peer_send(c, serialized) ==
    LET n == c.sends + 1
        c1 == [c EXCEPT !.sends = n]
    IN IF ~serialized THEN peer_handle_send(c1, n, "bad_alloc")
       ELSE [c1 EXCEPT !.writes = @ \cup {n}]

\* Actions of this section change the channel_peer only.
PeerOnly == UNCHANGED <<connVars, settings, hostPool, sessVars, netVars,
                        acceptCode, hostsCode, countVars, ping, seed, dist>>

PeerSend ==
    /\ cpeer.sends < MaxSends
    /\ \E serialized \in BOOLEAN : cpeer' = peer_send(cpeer, serialized)
    /\ PeerOnly

\* A write completes; on a stopped channel it cannot succeed.
PeerWriteDone ==
    /\ \E n \in cpeer.writes,
          ec \in IF cpeer.stopped THEN {"channel_stopped"}
                 ELSE {Success, "bad_stream"} :
          cpeer' = peer_handle_send([cpeer EXCEPT !.writes = @ \ {n}],
                                    n, ec)
    /\ PeerOnly

\* The channel is stopped from elsewhere (read failure, timers, session).
PeerStop ==
    /\ ~cpeer.stopped
    /\ \E ec \in {"channel_inactive", "service_stopped"} :
          cpeer' = peer_stop(cpeer, 0, ec)
    /\ PeerOnly

NextChannelPeer ==
    \/ PeerSend
    \/ PeerWriteDone
    \/ PeerStop

SpecChannelPeer == InitManual /\ [][NextChannelPeer]_vars

\* C22: the completion handler of every send is invoked at most once, and
\* once when its write is no longer outstanding; an invocation with an
\* error ec comes directly after that send's stop(ec), and a send whose
\* handler got success has made no stop call.
C22_SendCompletesOnce ==
    /\ \A n \in 1..cpeer.sends :
          /\ Len(cpeer.done[n]) <= 1
          /\ n \notin cpeer.writes => Len(cpeer.done[n]) = 1
    /\ \A i \in 1..Len(cpeer.log) :
          LET e == cpeer.log[i]
          IN e.op = "handler" =>
                IF e.ec # Success
                THEN /\ i > 1
                     /\ cpeer.log[i - 1] = [op |-> "stop", n |-> e.n,
                                            ec |-> e.ec]
                ELSE \A j \in 1..Len(cpeer.log) :
                        ~(cpeer.log[j].op = "stop" /\ cpeer.log[j].n = e.n)

\* One send was written and succeeded, another failed in its write and
\* stopped the channel with the write's code.
C22_Witness ==
    /\ cpeer.sends = 2
    /\ cpeer.done[1] = <<Success>>
    /\ cpeer.done[2] = <<"bad_stream">>
    /\ cpeer.code = "bad_stream"

\* The batch completion handler of slot p was invoked with an error in
\* this step.
BatchFailedNow(p) ==
    \E x \in DOMAIN completes' :
        /\ x.slot = p
        /\ x.ec # Success
        /\ CopiesIn(x, completes') > CopiesIn(x, completes)

\* C23 (as stated): the step in which a batch cycle of a slot fails does
\* not start that slot's next cycle: the next cycle waits for a timer or
\* for a change of the address count.
C23_FailedBatchWaits ==
    [][\A p \in Slots : BatchFailedNow(p) => cycles'[p] = cycles[p]]_vars

EarlierCounts ==
    {<<0, max_size_t - 1>>, <<max_size_t - 1, max_size_t - 1>>}

InitCountLimit ==
    /\ InitConn
    /\ InitSession
    /\ settings = DefaultSettings
    /\ hostPool = {}
    /\ InitSupervisor
    /\ acceptCode = Success
    /\ hostsCode = Success
    /\ nonces_ = {}
    /\ \E k \in EarlierCounts :
          /\ inbound_channel_count_ = k[1]
          /\ total_channel_count_ = k[2]
    /\ reserved = {}
    /\ chan \in [Channels -> ChannelKinds]
    /\ cphase = [ch \in Channels |-> "new"]
    /\ cres = [ch \in Channels |-> NoCall]

SpecCountLimit == InitCountLimit /\ [][NextCount]_vars

\* The codes with which count_channel refuses a channel.
Refusals ==
    {"service_stopped", "accept_failed", "channel_overflow", "address_in_use"}

\* C25: a count_channel call that returns a code other than success
\* returns one of service_stopped, accept_failed, channel_overflow and
\* address_in_use, and leaves inbound_channel_count, total_channel_count
\* and the reserved authorities as they were before the call.
C25_RefusalChangesNothing ==
    \A ch \in Called :
        cres[ch].code # Success =>
            /\ cres[ch].code \in Refusals
            /\ cres[ch].kept

\* One channel was counted and took a counter to its maximum, and the next
\* was refused for it.
C25_Witness ==
    /\ Counted # {}
    /\ total_channel_count_ = max_size_t
    /\ \E ch \in Called : cres[ch].code = "channel_overflow" /\ cres[ch].kept

(***************************************************************************)
(* SpecStart: the owner starts and runs the supervisor, in either order,   *)
(* and may close it at any point; the hosts file loads or fails to.        *)
(***************************************************************************)
StartSettings ==
    { [DefaultSettings EXCEPT !.inbound_connections = 1,
                              !.inbound_port = p,
                              !.host_pool_capacity = c,
                              !.peers = ps] :
        p \in {0, 42}, c \in {0, 1}, ps \in {<<>>, <<1>>} }

NextStart ==
    \/ StartDispatch
    \/ RunCheck
    \/ RunPost
    \/ CloseLatch
    \/ CloseDispatch
    \/ StrandRun
    \/ TimerExpire
    \/ ResolveComplete
    \/ SocketComplete

InitStart ==
    /\ InitConn
    /\ InitSession
    /\ InitSupervisor
    /\ acceptCode \in {Success, "invalid_magic"}
    /\ hostsCode \in {Success, "file_load"}
    /\ nonces_ = {}
    /\ inbound_channel_count_ = 0
    /\ total_channel_count_ = 0
    /\ reserved = {}
    /\ chan = <<>>
    /\ cphase = <<>>
    /\ cres = <<>>
    /\ settings \in StartSettings
    /\ settings.inbound_port = 0 => acceptCode = Success
    /\ hostPool = {}

SpecStart == InitStart /\ [][NextStart]_vars

\* Where session name comes in the order of session starts (0: nowhere).
StartedAt(name) ==
    IF \E i \in 1..Len(order) : order[i] = name
    THEN CHOOSE i \in 1..Len(order) : order[i] = name
    ELSE 0

\* C26: the seed session is started only after the manual session, and
\* only when the manual session started with success and the hosts file
\* loaded; when either failed the start handler has that code and there is
\* no seed session; the inbound and outbound sessions are started only by
\* run, the inbound one first; no session is started twice.
C26_StartSequence ==
    /\ \A i, j \in 1..Len(order) : i # j => order[i] # order[j]
    /\ StartedAt("seed") # 0 =>
          /\ StartedAt("manual") # 0
          /\ StartedAt("manual") < StartedAt("seed")
          /\ hostsCode = Success
    /\ (StartedAt("manual") # 0 /\ hostsCode # Success) =>
          /\ starts = <<hostsCode>>
          /\ StartedAt("seed") = 0
    /\ \A i \in 1..Len(starts) : starts[i] = Success => StartedAt("seed") # 0
    /\ StartedAt("inbound") # 0 => rpc = "done"
    /\ StartedAt("outbound") # 0 =>
          /\ StartedAt("inbound") # 0
          /\ StartedAt("inbound") < StartedAt("outbound")

\* The hosts file failed to load: start reported it and started no seed
\* session, and a run made afterwards started inbound, then outbound.
C26_Witness ==
    /\ hostsCode = "file_load"
    /\ starts = <<"file_load">>
    /\ order = <<"manual", "inbound", "outbound">>

\* C27 (as stated): the handler of a connect call that stop() found in
\* progress is handed channel_stopped (with no channel) and nothing else:
\* every outcome it is handed is channel_stopped, and it has been handed
\* one when nothing of the call remains in flight.
C27_StopYieldsChannelStopped ==
    \A a \in halted :
        /\ \A i \in 1..Len(Outcomes(a)) : Outcomes(a)[i] = "channel_stopped"
        /\ ~InFlight(a) => Outcomes(a) # <<>>

\* The connect calls whose handler was first handed channel_timeout: the
\* connect timer expired before the attempt had completed.
TimedOut == {a \in 1..attempts :
                calls[a] # <<>> /\ calls[a][1] = "channel_timeout"}

\* C28 (as stated): when the connect timer expires first, the handler is
\* handed channel_timeout (with no channel), and a completion of the
\* attempt that arrives afterwards is discarded: the handler is handed no
\* further outcome.
C28_LateCompletionDiscarded ==
    \A a \in TimedOut : Outcomes(a) = <<"channel_timeout">>

\* The batch completion handler of slot p was invoked with success in this
\* step.
BatchAdoptedNow(p) ==
    \E x \in DOMAIN completes' :
        /\ x.slot = p
        /\ x.ec = Success
        /\ CopiesIn(x, completes') > CopiesIn(x, completes)

\* The connectors of slot p, other than the one whose handler runs in this
\* step, that are still pending: the connector's timer is armed for a connect
\* call whose handler has not been invoked.
StillPending(p) ==
    {c \in SlotConnectors(p) :
        /\ strand # <<>>
        /\ c # Head(strand).c
        /\ timer_[c] # 0
        /\ calls[timer_[c]] = <<>>}

\* C29 (as stated): in the step in which a connector of a batch completes with
\* success and the batch completion handler is invoked, stop() has been called
\* on every other connector of the batch that was still pending: its connect
\* timer is no longer armed and its resolve is no longer in flight.  It holds
\* with one slot; with two slots the count_ they share reaches batch_ by the
\* other slot's failures and the stops are skipped.
C29_WinnerStopsOthers ==
    [][\A p \in Slots :
          BatchAdoptedNow(p) =>
              \A c \in StillPending(p) :
                  /\ timer_'[c] = 0
                  /\ \A a \in Attempts : Op("resolve", c, a) \notin pending'
      ]_vars

\* The adopted outbound channel ch stops in this step, with the session
\* stopped or not.
OutboundChannelStops(ch, stopped) ==
    /\ handler_[ch].k = "batch"
    /\ channels[ch] = "started"
    /\ channels'[ch] = "none"
    /\ sstopped = stopped

\* The connect calls made in this step belong to a new cycle of slot p and
\* are made on the connectors of slot p.
NewCycleOn(p) ==
    /\ cycles' = [cycles EXCEPT ![p] = @ + 1]
    /\ \A a \in (attempts + 1)..attempts' :
           /\ handler_'[a] = BatchHandler(p, cycles'[p])
           /\ \E c \in SlotConnectors(p) : timer_'[c] = a

\* C30: when an adopted outbound channel stops (its handshake having
\* completed with success or with an error) and the session is not stopped,
\* exactly one new batch cycle is started, on the connectors of the channel's
\* slot; when the session is stopped the stop starts no cycle, and no step
\* of a session stopped after its start starts one.
C30_StopStartsOneCycle ==
    [][/\ \A ch \in Attempts :
             /\ OutboundChannelStops(ch, FALSE) => NewCycleOn(handler_[ch].slot)
             /\ OutboundChannelStops(ch, TRUE) => cycles' = cycles
       /\ (sstopped /\ started # <<>>) => cycles' = cycles
      ]_vars

\* The channel adopted in the first cycle of a slot has stopped, the session
\* running, and the slot is in its second cycle with a connector connecting.
C30_Witness ==
    \E p \in Slots : \E a \in 1..attempts :
        /\ ~sstopped
        /\ Completions(p, 1, Success) = 1
        /\ handler_[a] = BatchHandler(p, 1)
        /\ calls[a] = <<Success>>
        /\ channels[a] = "none"
        /\ cycles[p] = 2
        /\ \E c \in SlotConnectors(p) : timer_[c] > a

(***************************************************************************)
(* SpecClosed: callers run, subscribe and connect while the owner starts   *)
(* and closes the supervisor.                                              *)
(***************************************************************************)
\* p2p::connect(endpoint, handler), called once, for endpoint 1.
ConnectCall ==
    /\ mconnect[1].at = "none"
    /\ Apply(p2p_connect(St, 1))

\* One caller subscribes.
SubscribeFirst ==
    /\ SubscribeCheck
    /\ handlers'[1].pc # "idle"

NextClosed ==
    \/ StartDispatch
    \/ ConnectCall
    \/ RunCheck
    \/ RunPost
    \/ SubscribeFirst
    \/ SubscribePost
    \/ CloseLatch
    \/ CloseDispatch
    \/ StrandRun

SpecClosed == InitClose /\ [][NextClosed]_vars

(***************************************************************************)
(* Calls into the supervisor that race with close.                         *)
(***************************************************************************)
\* The handler of subscriber h has been invoked, with whatever code.
Invoked(h) == handlers[h].stops > 0 \/ handlers[h].seen # {}

\* C31 (as stated): a handler passed to subscribe_close or subscribe_connect
\* from outside the pool is not orphaned by a concurrent close: once its
\* subscribe call has returned and the pool's threads have been joined (no
\* posted work will run any more), the handler has been invoked.
C31_NeverOrphaned ==
    \A h \in Subscribers :
        (handlers[h].pc = "done" /\ pool = "joined") => Invoked(h)

\* What a call refused at the door must leave alone: the sessions, the
\* subscriptions, the connectors and the strand's queue.
Untouched ==
    <<order, attached, stop_subscriber_, connect_subscriber_, keys_, strand,
      attempts, pending, timer_, sconnectors, sstopped>>

\* C32: a call of run, subscribe_close, subscribe_connect or
\* connect(endpoint, handler) that is made once closed is latched invokes
\* its handler with service_stopped within the call, and starts no session,
\* retains no subscription, posts nothing and attempts no connection; so
\* does a do_run that finds closed latched when it runs.
C32_ClosedRefuses ==
    [][closed_ =>
        /\ (rpc = "idle" /\ rpc' # "idle") =>
               /\ rpc' = "done"
               /\ runs' = Append(runs, "service_stopped")
               /\ UNCHANGED Untouched
        /\ (/\ strand # <<>>
            /\ Head(strand).t = "do_run"
            /\ (strand' = <<>> \/ Head(strand') # Head(strand))) =>
               /\ runs' = Append(runs, "service_stopped")
               /\ UNCHANGED <<order, attached, attempts, pending, mconnect>>
        /\ \A h \in Subscribers :
               (handlers[h].pc = "idle" /\ handlers'[h].pc # "idle") =>
                   /\ handlers'[h].pc = "done"
                   /\ handlers'[h].done = "service_stopped"
                   /\ handlers'[h].stops = 1
                   /\ UNCHANGED Untouched
        /\ \A e \in Endpoints :
               (mconnect[e].at = "none" /\ mconnect'[e].at # "none") =>
                   /\ Len(ucalls'[e]) = Len(ucalls[e]) + 1
                   /\ ucalls'[e][Len(ucalls'[e])].ec = "service_stopped"
                   /\ ucalls'[e][Len(ucalls'[e])].ch = 0
                   /\ UNCHANGED Untouched
      ]_vars

\* Closed is latched and every kind of call has been made after it: a run, a
\* subscribe and a connect were each answered with service_stopped, while a
\* manual session exists.
C32_Witness ==
    /\ closed_
    /\ StartedAt("manual") = 1
    /\ rpc = "done" /\ runs = <<"service_stopped">>
    /\ \E h \in Subscribers :
          handlers[h].pc = "done" /\ handlers[h].done = "service_stopped"
    /\ \E e \in Endpoints :
          mconnect[e].at = "closed" /\ Len(ucalls[e]) = 1

(***************************************************************************)
(* SpecStop: the supervisor is started and run with an inbound session and *)
(* either two manual peers or one outbound slot of two connectors, and is  *)
(* closed at any point, which stops every attached session.               *)
(***************************************************************************)
StopSettings ==
    { [DefaultSettings EXCEPT !.inbound_connections = 1,
                              !.inbound_port = 42,
                              !.outbound_connections = 1,
                              !.connect_batch_size = 2],
      [DefaultSettings EXCEPT !.inbound_connections = 1,
                              !.inbound_port = 42,
                              !.peers = <<1, 2>>] }

\* The manual session is started where peers are configured (the model
\* keeps one session's state: the manual one or the outbound one).
StartManual ==
    /\ settings.peers # <<>>
    /\ StartDispatch

NextStop ==
    \/ StartManual
    \/ RunCheck
    \/ RunPost
    \/ CloseLatch
    \/ CloseDispatch
    \/ StrandRun
    \/ TimerExpire
    \/ ResolveComplete
    \/ SocketComplete

InitStop ==
    /\ InitConn
    /\ InitSession
    /\ InitSupervisor
    /\ acceptCode \in {Success, "invalid_magic"}
    /\ hostsCode = Success
    /\ nonces_ = {}
    /\ inbound_channel_count_ = 0
    /\ total_channel_count_ = 0
    /\ reserved = {}
    /\ chan = <<>>
    /\ cphase = <<>>
    /\ cres = <<>>
    /\ settings \in StopSettings
    /\ hostPool = Hosts

SpecStop == InitStop /\ [][NextStop]_vars

\* stop() has been invoked on connector c: unless it found stopped_ set
\* (and returned), the connect timer is not armed and the resolve is not in
\* flight.
ConnectorStopped(c) ==
    \/ stopped_'[c]
    \/ /\ timer_'[c] = 0
       /\ \A a \in Attempts : Op("resolve", c, a) \notin pending'

\* C33: in the step that stops a session, stop() is invoked on every
\* connector the session created (none with stopped_ clear is left with its
\* timer armed or its resolve in flight), and in the step that stops the inbound session
\* stop() is invoked on every acceptor it created, the ones whose start
\* failed included.
C33_StopReachesAll ==
    [][/\ (~sstopped /\ sstopped') =>
             \A c \in Connectors : ConnectorStopped(c)
       /\ (~istopped /\ istopped') => astopped' = acceptors
      ]_vars

\* The sessions have been stopped after both connectors of the manual
\* peers or of the outbound batch had been connecting, and after an
\* acceptor whose start failed had been created.
C33_Witness ==
    /\ sstopped /\ started # <<>>
    /\ attempts = 2
    /\ \A a \in 1..2 : \E i \in 1..Len(calls[a]) : calls[a][i] = "channel_stopped"
    /\ istopped /\ acceptors = 1 /\ astopped = 1
    /\ icodes = <<"invalid_magic">>

\* C34 (as stated): a pong handed to a channel that has not stopped while no
\* ping is outstanding (none sent yet, or the last one answered) stops the
\* channel with protocol_violation, whatever nonce it carries.
C34_UnsolicitedPongStops ==
    [][( /\ Len(ping'.pongs) > Len(ping.pongs)
         /\ ~ping.stopped
         /\ ping.nonce = received )
       => ping'.stopped /\ ping'.code = "protocol_violation"]_vars

\* Number of batch completions of cycle cy of slot p, with whatever code.
AllCompletions(p, cy) ==
    LET P(x) == x.slot = p /\ x.cycle = cy
    IN CountIn(completes, P)

\* Number of handle_batch calls of cycle cy of slot p with an error.
BatchFailures(p, cy) ==
    LET P(x) == x.slot = p /\ x.cycle = cy /\ x.ec # Success
    IN CountIn(hb, P)

\* C35 (as stated): with several slots the counting of completions is per
\* batch.  In the first cycle of a slot, where nothing of the slot itself
\* has been counted before, the cycle is completed with connect_failed only
\* when batch_ connectors of its own slot have failed, it is not completed
\* twice, and once all its batch_ connectors have failed it has been
\* completed.
C35_CountingPerBatch ==
    \A p \in Slots :
        cycles[p] >= 1 =>
            /\ Completions(p, 1, "connect_failed") > 0 =>
                   BatchFailures(p, 1) >= batch_
            /\ AllCompletions(p, 1) <= 1
            /\ (~sstopped /\ BatchFailures(p, 1) = batch_
                          /\ BatchCalls(p, 1) = batch_) =>
                   AllCompletions(p, 1) = 1

\* C36 (as stated): once a connector has been reused, a late completion of
\* an earlier connect call does not invoke the earlier call's handler, and
\* the handler of the new call is still invoked exactly once with an
\* outcome (at most once, and once nothing of the call remains in flight).
C36_ReuseIsClean ==
    /\ [][\A a \in 1..attempts :
             a < attempts => Outcomes(a)' = Outcomes(a)]_vars
    /\ [](\A a \in 2..attempts :
             /\ Len(Outcomes(a)) <= 1
             /\ ~InFlight(a) => Len(Outcomes(a)) = 1)

\* The expiry of endpoint e's retry delay is waiting on the strand.
RetryExpired(e) ==
    \E i \in 1..Len(strand) :
        /\ strand[i].t = "session_timer"
        /\ strand[i].c = e
        /\ strand[i].ec = Success

\* C37 (as stated): while the session runs, a retry delay pending for one
\* manual endpoint stays pending until it expires, whatever happens to the
\* other endpoints (it is not cancelled, replaced or lost when another
\* endpoint's connect fails and arms the session timer).
C37_RetryDelayUndisturbed ==
    [][\A e \in Endpoints :
          (stimer = e /\ ~sstopped') =>
              \/ stimer' = e
              \/ stimer' = 0 /\ RetryExpired(e)']_vars

\* The manual session has been started and then stopped.
StoppedAfterStart == sstopped /\ started # <<>>

\* The number of times the caller's handler of endpoint e has been invoked
\* with service_stopped.
StopReports(e) ==
    Cardinality({i \in 1..Len(ucalls[e]) : ucalls[e][i].ec = "service_stopped"})

\* Nothing is left to run: no task on the strand, no operation or timer
\* pending, no channel live.
AllQuiet ==
    /\ strand = <<>>
    /\ pending = {}
    /\ stimer = 0
    /\ \A c \in Connectors : timer_[c] = 0
    /\ \A ch \in Attempts : channels[ch] \notin {"handshake", "started"}

\* C38: after the manual session is stopped no further connector connect is
\* issued, and every connection loop that was begun ends by invoking the
\* caller's handler with service_stopped exactly once: never twice, and once
\* when nothing is left to run.
C38_LoopsTerminate ==
    /\ [][StoppedAfterStart => attempts' = attempts]_vars
    /\ [](StoppedAfterStart =>
            \A e \in Endpoints :
                mconnect[e].at = "started" =>
                    /\ StopReports(e) <= 1
                    /\ AllQuiet => StopReports(e) = 1)

(***************************************************************************)
(* protocol_events under threads: set_event is called from the handlers of *)
(* several pool threads and from the channel's stop notification, and a    *)
(* call may be overtaken between its load of handler_ and its invocation.  *)
(***************************************************************************)
\* set_event calls made by the derived protocol's handlers.
MaxSetEvents == 3

\* protocol_events::start(handler)
pevents_start(q) ==
    [q EXCEPT !.started = TRUE, !.handler = TRUE]

EventsStart ==
    /\ ~seed.started
    /\ seed' = pevents_start(seed)
    /\ SeedOnly

\* A handler of the derived protocol calls set_event(ec) and loads handler_.
EventsLoad ==
    /\ seed.started
    /\ Len(seed.fired) + Len(seed.loaded) < MaxSetEvents
    /\ \E ec \in {Success, "bad_stream", "channel_timeout"} :
          seed' = set_event_load(seed, ec)
    /\ SeedOnly

\* The stop notification runs handle_stopped: set_event(channel_stopped)
\* loads handler_.
EventsStopped ==
    /\ seed.stopnote
    /\ seed' = set_event_load([seed EXCEPT !.stopnote = FALSE],
                              "channel_stopped")
    /\ SeedOnly

\* One of the calls holding a handler goes on to invoke it.
EventsInvoke ==
    /\ \E i \in 1..Len(seed.loaded) : seed' = set_event_invoke(seed, i)
    /\ SeedOnly

NextEvents ==
    \/ EventsStart
    \/ EventsLoad
    \/ EventsStopped
    \/ EventsInvoke
    \/ SeedChannelStop

SpecEvents == InitSeed /\ [][NextEvents]_vars

\* C39 (as stated): once the event handler has been invoked with
\* channel_stopped it is never invoked again.
C39_StoppedIsLast ==
    \A i \in 1..Len(seed.fired) :
        seed.fired[i] = "channel_stopped" => i = Len(seed.fired)

(***************************************************************************)
(* SpecCountCalls: SpecCount with the counters at either end of their      *)
(* range, and with uncount_channel also called for channels that           *)
(* count_channel has not counted (the calls its underflow tests are for).  *)
(***************************************************************************)
\* inbound_channel_count_ and total_channel_count_ at the start.
BoundaryCounts ==
    {<<0, 0>>, <<0, 1>>, <<0, max_size_t - 1>>, <<0, max_size_t>>,
     <<max_size_t - 1, max_size_t - 1>>}

\* p2p::uncount_channel called for a channel that was never counted.
ChannelUncount ==
    \E ch \in Channels :
        /\ cphase[ch] \in {"stored", "refused"}
        /\ ApplyNet(p2p_uncount_channel(p2p_unstore_nonce(Net, ch), ch))
        /\ cphase' = [cphase EXCEPT ![ch] = "uncounted"]
        /\ UNCHANGED <<connVars, settings, hostPool, sessVars, netVars,
                       protoVars, acceptCode, hostsCode, chan, cres>>

NextCountCalls ==
    \/ ChannelStoreNonce
    \/ ChannelCount
    \/ ChannelStopped
    \/ ChannelUncount

InitCountCalls ==
    /\ InitConn
    /\ InitSession
    /\ settings = DefaultSettings
    /\ hostPool = {}
    /\ InitSupervisor
    /\ acceptCode = Success
    /\ hostsCode = Success
    /\ nonces_ = {}
    /\ \E k \in BoundaryCounts :
          /\ inbound_channel_count_ = k[1]
          /\ total_channel_count_ = k[2]
    /\ reserved = {}
    /\ chan \in [Channels -> ChannelKinds]
    /\ cphase = [ch \in Channels |-> "new"]
    /\ cres = [ch \in Channels |-> NoCall]

SpecCountCalls == InitCountCalls /\ [][NextCountCalls]_vars

\* A counter that channel ch takes part in is at its maximum / at zero.
AtMaximum(ch) ==
    \/ chan[ch].inbound /\ inbound_channel_count_ = max_size_t
    \/ ~chan[ch].quiet /\ total_channel_count_ = max_size_t

AtZero(ch) ==
    \/ chan[ch].inbound /\ inbound_channel_count_ = 0
    \/ ~chan[ch].quiet /\ total_channel_count_ = 0

CountersKept ==
    /\ inbound_channel_count_' = inbound_channel_count_
    /\ total_channel_count_' = total_channel_count_

\* C40: inbound_channel_count and total_channel_count never wrap: a
\* count_channel call never lowers a counter, and with a counter of the
\* channel at its maximum it returns channel_overflow (or an earlier
\* refusal) and leaves both counters as they were; the stop of a channel
\* (uncount_channel) never raises a counter, and with a counter of the
\* channel at zero it leaves both counters as they were.
C40_CountersNeverWrap ==
    [][\A ch \in Channels :
          /\ (cphase[ch] = "stored" /\ cphase'[ch] \in {"counted", "refused"}) =>
                /\ inbound_channel_count_' >= inbound_channel_count_
                /\ total_channel_count_' >= total_channel_count_
                /\ AtMaximum(ch) =>
                      /\ cres'[ch].code \in
                            {"channel_overflow", "service_stopped",
                             "accept_failed"}
                      /\ CountersKept
          /\ (cphase[ch] # cphase'[ch] /\
              cphase'[ch] \in {"stopped", "uncounted"}) =>
                /\ inbound_channel_count_' \in 0..inbound_channel_count_
                /\ total_channel_count_' \in 0..total_channel_count_
                /\ AtZero(ch) => CountersKept]_vars

\* Both limits have been met: a channel was refused with channel_overflow
\* with the total at its maximum, and uncount_channel has been called for
\* an inbound channel with the inbound counter at zero and the total not.
C40_Witness ==
    /\ total_channel_count_ = max_size_t
    /\ inbound_channel_count_ = 0
    /\ \E ch \in Channels :
          /\ cres[ch].code = "channel_overflow"
          /\ cphase[ch] = "refused"
    /\ \E ch \in Channels :
          /\ chan[ch].inbound
          /\ cphase[ch] = "uncounted"

====
